---- MODULE Spec2Model ----
(***************************************************************************)
(* Content extraction and normalization engine of nonnon.                  *)
(*                                                                         *)
(*   - the generic pipeline processArticleHtml with its pagination loop    *)
(*     (src/src/utils/smart-http-client.ts),                               *)
(*   - the rule-driven extractor baseExtract / getContent                  *)
(*     (src/src/utils/specified_scraper.ts and its earlier revisions),     *)
(*   - the concurrency helpers Semaphore and pLimit                        *)
(*     (src/src/types/index.ts),                                           *)
(*   - smartFetchHtml, maintainArticleLimit and the articles API, each     *)
(*     under a specification of its own.                                   *)
(*                                                                         *)
(* A document is a tree of nodes [tag, attrs, kids]; a URL string is a     *)
(* record [form, host, path, ext] that keeps what the code inspects: is it *)
(* absolute, does it parse, which host, which file extension.              *)
(***************************************************************************)
EXTENDS Integers, Sequences, FiniteSets, TLC

VARIABLES
    mode,          \* which entry point this behaviour exercises
    pc,            \* position of the running call
    pageUrl,       \* processArticleHtml: pageUrl argument
    selectors,     \* processArticleHtml: removeSelectorsList / rule.removeSelectorTags
    allowHosts,    \* processArticleHtml: allowHosts argument
    web,           \* the pages the fetcher can reach: URL -> parsed document
    doc,           \* the cheerio document $ of the running call
    currentUrl,    \* processPaging: currentUrl
    pendingUrl,    \* processPaging: nextPageUrl of the fetch in flight
    nextPageContents, \* processPaging: nextPageContents
    fetchLog,      \* history: every fetch issued, in order, with its outcome
    afterPaging,   \* history: $ as processPaging left it
    afterRemove,   \* history: $ right after removeSelectors (step 4)
    result,        \* the string the call returned (a token sequence)
    variant,       \* getContent: which revision of it runs ("table" or "db")
    rule,          \* getContent: what the rule store holds for the article's domain
    outcome,       \* getContent: how the call ended
    htmls,         \* _kyarabetsunijiero_extract: htmls
    html,          \* getContent: html, what getHtmlText(articleURL) answered
    limit,         \* Semaphore: limit
    running,       \* Semaphore: running
    queue,         \* Semaphore: queue (the task whose resolve each entry is)
    position,      \* Semaphore: where each execute(fn) call stands
    tasks,         \* pLimit: tasks (how each task stands)
    plimit,        \* pLimit: limit
    index,         \* pLimit: i (index)
    executing,     \* pLimit: executing
    at,            \* pLimit: the statement the call is at
    strategy,      \* smartFetchHtml: options.strategy
    maxRetries,    \* smartFetchHtml: options.maxRetries
    attempt,       \* smartFetchHtml: attempt
    stage,         \* smartFetchHtml: the await the call is suspended at
    calls,         \* history: the fetches smartFetchHtml issued, with their answers
    fetched,       \* smartFetchHtml: the value it returned
    appConfig,     \* maintainArticleLimit: maxArticles, batchSize, articles-api configured
    articleTable,  \* the article table: ids, oldest created_at first
    bookmarkTable, \* the bookmark table: ids of the bookmarked articles
    r2,            \* the ids whose content the articles-api stores
    staleArticleIds, \* maintainArticleLimit: staleArticleIds
    deletedIds,    \* history: the ids maintainArticleLimit deleted from the article table
    step,          \* maintainArticleLimit: the await the call is suspended at
    articles_html, \* articles API: the R2 bucket env.articles_html, key -> content
    deletes,       \* articles API: how many DELETE handlers stand between their get and
                   \* their delete, per id and object they got
    response,      \* articles API: the request answered last, with its answer
    before,        \* history: the bucket when the handler answering last took its step
    latestPut,     \* history: per id the content of the latest PUT answered with
                   \* success, Absent once a DELETE answered deleted=true since
    runAt,         \* run(): the statement the call is at
    lastAccess,    \* the sites whose last_access this run has updated
    maintained,    \* history: how often run() has called maintainArticleLimit
    feed,          \* scrapeSite: feed.items, each by its link ("" for none)
    storedUrls,    \* the urls of the rows of the article table
    existingUrls,  \* scrapeSite: existingUrls
    articlesToProcess, \* scrapeSite: articlesToProcess, each by its url
    item,          \* scrapeSite: index of the feed item the loop is at
    processed,     \* history: the links processSingleArticle was called with
    scrapeAt,      \* scrapeSite: the await the call is suspended at
    inserted,      \* scrapeSite: newSupabaseArticles, each by its url
    uploaded       \* the urls whose content saveArticleContent has stored

pipelineVars == <<mode, pc, pageUrl, selectors, allowHosts, web, doc, currentUrl,
                  pendingUrl, nextPageContents, fetchLog, afterPaging, afterRemove,
                  result, variant, rule, outcome, htmls, html>>
semaphoreVars == <<limit, running, queue, position>>
pLimitVars == <<tasks, plimit, index, executing, at>>

smartFetchVars == <<strategy, maxRetries, attempt, stage, calls, fetched>>

maintenanceVars == <<appConfig, articleTable, bookmarkTable, r2, staleArticleIds,
                     deletedIds, step>>

apiVars == <<articles_html, deletes, response, before, latestPut>>

runVars == <<runAt, lastAccess, maintained>>

scrapeVars == <<feed, storedUrls, existingUrls, articlesToProcess, item, processed,
                scrapeAt, inserted, uploaded>>

vars == <<pipelineVars, semaphoreVars, pLimitVars, smartFetchVars, maintenanceVars,
          apiVars, runVars, scrapeVars>>

\* What the content pipeline leaves alone
otherVars == <<semaphoreVars, pLimitVars, smartFetchVars, maintenanceVars, apiVars,
               runVars, scrapeVars>>

\* No semaphore, no pLimit call
SemaphoreIdle == limit = 0 /\ running = 0 /\ queue = <<>> /\ position = <<>>
PLimitIdle == tasks = <<>> /\ plimit = 0 /\ index = 0 /\ executing = <<>> /\ at = "idle"
SmartFetchIdle ==
    /\ strategy = "none" /\ maxRetries = 0 /\ attempt = 0
    /\ stage = "idle" /\ calls = <<>> /\ fetched = "none"
MaintenanceIdle ==
    /\ appConfig = <<>> /\ articleTable = <<>> /\ bookmarkTable = {} /\ r2 = {}
    /\ staleArticleIds = <<>> /\ deletedIds = {} /\ step = "idle"
ApiIdle ==
    /\ articles_html = <<>> /\ deletes = <<>> /\ response = <<>>
    /\ before = <<>> /\ latestPut = <<>>
RunIdle == runAt = "idle" /\ lastAccess = {} /\ maintained = 0
ScrapeIdle ==
    /\ feed = <<>> /\ storedUrls = {} /\ existingUrls = {} /\ articlesToProcess = <<>>
    /\ item = 0 /\ processed = {} /\ scrapeAt = "idle" /\ inserted = <<>> /\ uploaded = {}
OtherIdle ==
    /\ SemaphoreIdle /\ PLimitIdle /\ SmartFetchIdle /\ MaintenanceIdle /\ ApiIdle
    /\ RunIdle /\ ScrapeIdle

-----------------------------------------------------------------------------
(* Bounds *)

\* The page-count cap the specification asks for (spec section 9: "e.g., 20").
MaxPageCount == 20

\* The fetcher answers at most this many fetches of one call with a page.
MaxFetches == MaxPageCount + 2

-----------------------------------------------------------------------------
(* URLs *)

\* q is the value of the URL's query parameter: <<>> or <<a URL>>.
AbsUrl(h, p, e) == [form |-> "abs", host |-> h, path |-> p, ext |-> e, q |-> <<>>]
RelUrl(p, e)    == [form |-> "rel", host |-> "", path |-> p, ext |-> e, q |-> <<>>]
\* "http://" followed by nothing that parses as a host
BadUrl          == [form |-> "bad", host |-> "", path |-> "", ext |-> "", q |-> <<>>]
\* the empty string
NoUrl           == [form |-> "none", host |-> "", path |-> "", ext |-> "", q |-> <<>>]
\* "#top": a value that starts with '#'
FragUrl         == [form |-> "frag", host |-> "", path |-> "top", ext |-> "", q |-> <<>>]
WithQuery(u, v) == [u EXCEPT !.q = <<v>>]

\* /^https?:\/\//i.test(u)
LooksAbsolute(u) == u.form \in {"abs", "bad"}

\* new URL(u) does not throw
UrlParses(u) == u.form = "abs"

\* new URL(u, base) does not throw
UrlResolves(u) == u.form \in {"abs", "rel", "frag"}

\* A resolution that hands the reference back as it came.
ResolveUrl_asIs(u, base) == u

\* new URL(u, base).href; a fragment alone resolves to the base's own path
ResolveUrl(u, base) ==
    IF u.form = "abs" THEN u
    ELSE IF u.form = "frag" THEN base
    ELSE [u EXCEPT !.form = "abs", !.host = base.host]

\* The extension the string ends with: a query value follows the path.
EndExt(u) == IF u.q = <<>> THEN u.ext ELSE u.q[1].ext

\* MEDIA_REGEX = /\.(jpe?g|png|gif|webp|mp4|webm|mov|m4v)(\?.*)?$/i
IsMediaUrl(u) ==
    u.ext \in {"jpg", "jpeg", "mp4"} \/ EndExt(u) \in {"jpg", "jpeg", "mp4"}
\* VIDEO_REGEX = /\.(mp4|webm|mov|m4v)$/i
IsVideoUrl(u) == EndExt(u) = "mp4"

-----------------------------------------------------------------------------
(* Document tree *)

NoAttrs == [a \in {} |-> ""]

N(t, a, k) == [tag |-> t, attrs |-> a, kids |-> k]
Txt(s)     == [tag |-> "#text", attrs |-> [data |-> s], kids |-> <<>>]
NoNode     == [tag |-> "#none", attrs |-> NoAttrs, kids |-> <<>>]

HasAttr(n, a)  == a \in DOMAIN n.attrs
Attr(n, a)     == n.attrs[a]
SetAttr(n, a, v) == [n EXCEPT !.attrs = (a :> v) @@ n.attrs]
SetAttrs(n, f)   == [n EXCEPT !.attrs = f @@ n.attrs]
HasClass(n, c) == HasAttr(n, "class") /\ c \in Attr(n, "class")
IsElem(n)      == n.tag \notin {"#text", "#none"}

\* cheerio.load always produces html > (head, body)
Document(headKids, bodyKids) ==
    N("html", NoAttrs, <<N("head", NoAttrs, headKids), N("body", NoAttrs, bodyKids)>>)

\* A selector "tag#id.cls[attr]", optionally "ptag.pcls > tag#id.cls[attr]".
Sel(t, i, c, a) == [tag |-> t, id |-> i, cls |-> c, attr |-> a, ptag |-> "", pcls |-> ""]
ChildSel(pt, pc_, t, c) ==
    [tag |-> t, id |-> "", cls |-> c, attr |-> "", ptag |-> pt, pcls |-> pc_]

MatchesSimple(t, i, c, a, n) ==
    /\ IsElem(n)
    /\ t \in {"*", n.tag}
    /\ i = "" \/ (HasAttr(n, "id") /\ Attr(n, "id") = i)
    /\ c = "" \/ HasClass(n, c)
    /\ a = "" \/ HasAttr(n, a)

Matches(sel, n, parent) ==
    /\ MatchesSimple(sel.tag, sel.id, sel.cls, sel.attr, n)
    /\ sel.ptag = "" \/ MatchesSimple(sel.ptag, "", sel.pcls, "", parent)

MatchesAny(sels, n, parent) == \E s \in sels : Matches(s, n, parent)

\* $(sels).first(): the first match in document order, NoNode when none.
RECURSIVE FirstIn(_, _, _)
RECURSIVE FirstInSeq(_, _, _)
FirstIn(sels, n, parent) ==
    IF MatchesAny(sels, n, parent) THEN n ELSE FirstInSeq(sels, n.kids, n)
FirstInSeq(sels, s, parent) ==
    IF s = <<>> THEN NoNode
    ELSE LET r == FirstIn(sels, Head(s), parent) IN
         IF r # NoNode THEN r ELSE FirstInSeq(sels, Tail(s), parent)

First(sels, d) == FirstIn(sels, d, NoNode)

\* $(sels).length > 0
Exists(sels, d) == First(sels, d) # NoNode

\* $(sels).remove(): every matching element leaves the tree with its subtree.
RemoveAll(sels, d) ==
    LET RECURSIVE R(_)
        R(n) == [n EXCEPT !.kids =
                    LET kept == SelectSeq(n.kids, LAMBDA k : ~MatchesAny(sels, k, n))
                    IN  [i \in DOMAIN kept |-> R(kept[i])]]
    IN R(d)

\* $(sels).first().append(extra)
RECURSIVE AppendFirst(_, _, _, _)
RECURSIVE AppendFirstSeq(_, _, _, _)
AppendFirst(sels, n, parent, extra) ==
    IF MatchesAny(sels, n, parent)
    THEN [n |-> [n EXCEPT !.kids = @ \o extra], hit |-> TRUE]
    ELSE LET r == AppendFirstSeq(sels, n.kids, n, extra)
         IN  [n |-> [n EXCEPT !.kids = r.s], hit |-> r.hit]
AppendFirstSeq(sels, s, parent, extra) ==
    IF s = <<>> THEN [s |-> <<>>, hit |-> FALSE]
    ELSE LET h == AppendFirst(sels, Head(s), parent, extra) IN
         IF h.hit THEN [s |-> <<h.n>> \o Tail(s), hit |-> TRUE]
         ELSE LET t == AppendFirstSeq(sels, Tail(s), parent, extra)
              IN  [s |-> <<Head(s)>> \o t.s, hit |-> t.hit]

\* Every node of the tree, as a set (for statements about the tree).
RECURSIVE NodesOf(_)
NodesOf(n) == {n} \cup UNION {NodesOf(n.kids[i]) : i \in DOMAIN n.kids}

\* $.html(): the serialized document, as the sequence of its open tags and texts.
RECURSIVE Serialize(_)
RECURSIVE SerializeSeq(_)
Serialize(n) ==
    <<[tag |-> n.tag, attrs |-> n.attrs]>> \o SerializeSeq(n.kids)
SerializeSeq(s) ==
    IF s = <<>> THEN <<>> ELSE Serialize(Head(s)) \o SerializeSeq(Tail(s))

\* A pass "$(sel).each(el => ...)" that replaces or removes elements: R(n, parent)
\* answers <<"keep">>, <<"drop">> or <<"put", node>>. Elements are visited in
\* document order; the subtree of a replaced or removed element is detached, so
\* what the pass does to its descendants no longer reaches the document.
RewriteTree(R(_, _), d) ==
    LET RECURSIVE W(_, _)
        RECURSIVE WS(_, _)
        W(n, parent) ==
            LET r == R(n, parent) IN
            IF r[1] = "drop" THEN <<>>
            ELSE IF r[1] = "put" THEN <<r[2]>>
            ELSE <<[n EXCEPT !.kids = WS(n.kids, n)]>>
        WS(s, parent) ==
            IF s = <<>> THEN <<>> ELSE W(Head(s), parent) \o WS(Tail(s), parent)
    IN  [d EXCEPT !.kids = WS(d.kids, d)]

\* $elem.find(sels).first() / .length: matches among the descendants of n.
FindFirst(sels, n) == FirstInSeq(sels, n.kids, n)
FindAny(sels, n)   == FindFirst(sels, n) # NoNode

TagSel(t) == Sel(t, "", "", "")
TagSels(ts) == {TagSel(t) : t \in ts}

\* $elem.text().trim(): the non-blank text items below n, in order.
RECURSIVE TextOf(_)
RECURSIVE TextOfSeq(_)
TextOf(n) ==
    IF n.tag = "#text"
    THEN (IF n.attrs.data = "" THEN <<>> ELSE <<n.attrs>>)
    ELSE TextOfSeq(n.kids)
TextOfSeq(s) == IF s = <<>> THEN <<>> ELSE TextOf(Head(s)) \o TextOfSeq(Tail(s))

\* A text node that reads as a URL.
TxtUrl(u) == [tag |-> "#text", attrs |-> [data |-> "url", url |-> u], kids |-> <<>>]

-----------------------------------------------------------------------------
(* processArticleHtml: the passes, in pipeline order *)

\* appConfig.lazyAttrs
LazyAttrs == <<"data-src", "data-lazy-src", "data-original">>

\* absolutizePaths($, pageUrl): an empty value and a value that starts with
\* '#' (or 'javascript:') are passed over
AbsolutizeAttr(n, a, page) ==
    IF ~HasAttr(n, a) \/ Attr(n, a).form \in {"none", "frag"} THEN n
    ELSE IF LooksAbsolute(Attr(n, a)) THEN n
    ELSE IF UrlResolves(Attr(n, a)) THEN SetAttr(n, a, ResolveUrl(Attr(n, a), page))
    ELSE n

absolutizePaths(d, page) ==
    LET RECURSIVE M(_)
        M(n) == LET m == AbsolutizeAttr(AbsolutizeAttr(n, "src", page), "href", page)
                IN  [m EXCEPT !.kids = [i \in DOMAIN n.kids |-> M(n.kids[i])]]
    IN M(d)

PagingNavSel   == {ChildSel("p", "next", "a", "pagingNav")}
ArticleBodySel == {Sel("div", "article-contents", "", ""), Sel("div", "", "article-body", "")}

\* checkPagingContents($)
checkPagingContents(d) ==
    /\ Exists({Sel("div", "article-contents", "", "")}, d)
    /\ Exists({Sel("div", "", "article-body", "")}, d)
    /\ Exists(PagingNavSel, d)

\* removeScripts($, allowHosts)
KeepScript(n, hosts) ==
    /\ HasAttr(n, "src") /\ Attr(n, "src").form # "none"
    /\ UrlParses(Attr(n, "src"))
    /\ Attr(n, "src").host \in hosts

\* removeScripts without the host test: only inline scripts go.
removeScripts_inlineOnly(d, hosts) ==
    RewriteTree(LAMBDA n, parent :
                    IF n.tag = "script" /\ ~HasAttr(n, "src") THEN <<"drop">> ELSE <<"keep">>,
                d)

removeScripts(d, hosts) ==
    RewriteTree(LAMBDA n, parent :
                    IF n.tag = "script" /\ ~KeepScript(n, hosts)
                    THEN <<"drop">> ELSE <<"keep">>, d)

\* A selector expression the selector engine rejects.
InvalidSel == Sel("!", "", "", "")
SelectorValid(sel) == sel.tag # "!"

\* removeSelectors with one try around the whole loop: the first invalid
\* selector ends the removal.
RECURSIVE removeSelectors_abortOnInvalid(_, _)
removeSelectors_abortOnInvalid(d, sels) ==
    IF sels = <<>> \/ ~SelectorValid(Head(sels)) THEN d
    ELSE removeSelectors_abortOnInvalid(RemoveAll({Head(sels)}, d), Tail(sels))

\* removeSelectors($, selectors): in listed order, an invalid one is skipped
RECURSIVE removeSelectors(_, _)
removeSelectors(d, sels) ==
    IF sels = <<>> THEN d
    ELSE removeSelectors(
            IF SelectorValid(Head(sels)) THEN RemoveAll({Head(sels)}, d) ELSE d,
            Tail(sels))

\* createImgurImgTag($, imgId)
createImgurImgTag(imgId) ==
    N("img",
      [src |-> AbsUrl("i.imgur.com", imgId, "jpeg"),
       alt |-> "imgur", loading |-> "lazy", referrerpolicy |-> "no-referrer",
       style |-> "img", class |-> {"my-formatted"}],
      <<>>)

\* The identifiers /imgur\.com\/([a-zA-Z0-9]{5,})/ accepts.
ImgurIds == {"abcde"}

\* unwrapImgur($)
unwrapImgur(d) ==
    LET iframes ==
            RewriteTree(LAMBDA n, parent :
                IF /\ n.tag = "iframe" /\ HasAttr(n, "src")
                   /\ Attr(n, "src").host \in {"imgur.com", "i.imgur.com"}
                   /\ Attr(n, "src").path \in ImgurIds
                THEN <<"put", createImgurImgTag(Attr(n, "src").path)>>
                ELSE <<"keep">>, d)
    IN  RewriteTree(LAMBDA n, parent :
                IF /\ n.tag = "blockquote" /\ HasClass(n, "imgur-embed-pub")
                   /\ HasAttr(n, "data-id") /\ Attr(n, "data-id") # ""
                THEN <<"put", createImgurImgTag(Attr(n, "data-id"))>>
                ELSE <<"keep">>, iframes)

\* findValidMediaUrl($elem): NoUrl stands for ''
RECURSIVE FirstLazy(_, _)
FirstLazy(n, i) ==
    IF i > Len(LazyAttrs) THEN NoUrl
    ELSE IF HasAttr(n, LazyAttrs[i]) /\ IsMediaUrl(Attr(n, LazyAttrs[i]))
         THEN Attr(n, LazyAttrs[i])
         ELSE FirstLazy(n, i + 1)

findValidMediaUrl(n) ==
    IF FirstLazy(n, 1) # NoUrl THEN FirstLazy(n, 1)
    ELSE IF HasAttr(n, "src") /\ IsMediaUrl(Attr(n, "src")) THEN Attr(n, "src")
    ELSE NoUrl

\* The canonical tags the pipeline writes.
VideoTag(u) ==
    N("video",
      [src |-> u, controls |-> "", playsinline |-> "", style |-> "video",
       class |-> {"my-formatted"}, loading |-> "lazy",
       referrerpolicy |-> "no-referrer"],
      <<>>)
ImgTag(u) ==
    N("img",
      [src |-> u, loading |-> "lazy", referrerpolicy |-> "no-referrer",
       style |-> "img", class |-> {"my-formatted"}],
      <<>>)

MediaSels == TagSels({"img", "video", "source"})

\* The anchor's URL with the href looked at before the query parameters.
AnchorMediaUrl_hrefFirst(n) ==
    LET href   == IF HasAttr(n, "href") THEN Attr(n, "href") ELSE NoUrl
        fromQ  == IF UrlParses(href) /\ href.q # <<>> /\ href.q[1].form = "abs"
                     /\ IsMediaUrl(href.q[1])
                  THEN href.q[1] ELSE NoUrl
        nested == FindFirst(TagSels({"img", "video", "source"}), n)
        text   == TextOf(n)
    IN  IF IsMediaUrl(href) THEN href
        ELSE IF fromQ # NoUrl THEN fromQ
        ELSE IF nested # NoNode /\ findValidMediaUrl(nested) # NoUrl
             THEN findValidMediaUrl(nested)
        ELSE IF Len(text) = 1 /\ text[1].data = "url" /\ text[1].url.form = "abs"
                /\ IsMediaUrl(text[1].url)
             THEN text[1].url
        ELSE NoUrl

\* unwrapAnchoredMedia, the URL an anchor stands for
AnchorMediaUrl(n) ==
    LET href   == IF HasAttr(n, "href") THEN Attr(n, "href") ELSE NoUrl
        fromQ  == IF UrlParses(href) /\ href.q # <<>> /\ href.q[1].form = "abs"
                     /\ IsMediaUrl(href.q[1])
                  THEN href.q[1] ELSE NoUrl
        nested == FindFirst(MediaSels, n)
        text   == TextOf(n)
    IN  IF fromQ # NoUrl THEN fromQ
        ELSE IF IsMediaUrl(href) THEN href
        ELSE IF nested # NoNode /\ findValidMediaUrl(nested) # NoUrl
             THEN findValidMediaUrl(nested)
        ELSE IF Len(text) = 1 /\ text[1].data = "url" /\ text[1].url.form = "abs"
                /\ IsMediaUrl(text[1].url)
             THEN text[1].url
        ELSE NoUrl

\* unwrapAnchoredMedia, the URL a p or div.wp-video stands for
ContainerMediaUrl(n) ==
    LET hasSignificantText ==
            \E i \in DOMAIN n.kids :
                n.kids[i].tag = "#text" /\ n.kids[i].attrs.data # ""
        mediaEl == FindFirst(MediaSels, n)
    IN  IF hasSignificantText \/ mediaEl = NoNode THEN NoUrl
        ELSE findValidMediaUrl(mediaEl)

\* /\.(mp4|webm|mov|ogv)$/ on the lower-cased url, or VIDEO_REGEX
IsVideoTarget(u) == IsVideoUrl(u)

\* unwrapAnchoredMedia($)
unwrapAnchoredMedia(d) ==
    LET unwrapped ==
            RewriteTree(LAMBDA n, parent :
                IF ~(n.tag \in {"a", "p"} \/ (n.tag = "div" /\ HasClass(n, "wp-video")))
                THEN <<"keep">>
                ELSE IF FindAny(TagSels({"iframe"}), n) THEN <<"keep">>
                ELSE LET url == IF n.tag = "a" THEN AnchorMediaUrl(n)
                                ELSE ContainerMediaUrl(n)
                     IN  IF url # NoUrl /\ IsMediaUrl(url)
                         THEN <<"put", IF IsVideoTarget(url) THEN VideoTag(url)
                                       ELSE ImgTag(url)>>
                         ELSE <<"keep">>, d)
    IN  RewriteTree(LAMBDA n, parent :
                IF /\ n.tag = "video" /\ FindAny(TagSels({"source"}), n)
                   /\ ~(HasAttr(n, "src") /\ Attr(n, "src").form # "none")
                   /\ FindAny({Sel("source", "", "", "src")}, n)
                   /\ Attr(FindFirst({Sel("source", "", "", "src")}, n), "src").form # "none"
                THEN <<"put",
                       [SetAttrs(n, [src |-> Attr(FindFirst({Sel("source", "", "", "src")}, n), "src"),
                                     controls |-> "", playsinline |-> "",
                                     style |-> "video", class |-> {"my-formatted"}])
                        EXCEPT !.kids = <<>>]>>
                ELSE <<"keep">>, unwrapped)

\* normalizeIframes($, allowHosts)
normalizeIframes(d, hosts) ==
    LET RECURSIVE M(_)
        M(n) ==
            LET m == IF /\ n.tag = "iframe" /\ HasAttr(n, "src")
                        /\ Attr(n, "src").form # "none"
                        /\ UrlParses(Attr(n, "src"))
                        /\ Attr(n, "src").host \in hosts
                        /\ Attr(n, "src").host # "platform.twitter.com"
                     THEN SetAttrs(n, [width |-> "100%", height |-> "auto",
                                       style |-> "iframe"])
                     ELSE n
            IN  [m EXCEPT !.kids = [i \in DOMAIN n.kids |-> M(n.kids[i])]]
    IN M(d)

\* normalizeImages($)
normalizeImages(d) ==
    RewriteTree(LAMBDA n, parent :
        IF ~(n.tag = "img" /\ ~HasClass(n, "my-formatted")) THEN <<"keep">>
        ELSE LET src == findValidMediaUrl(n) IN
             IF src = NoUrl THEN <<"drop">>
             ELSE IF IsVideoUrl(src) THEN <<"put", VideoTag(src)>>
             ELSE <<"put", SetAttrs(n, [src |-> src, loading |-> "lazy",
                                        referrerpolicy |-> "no-referrer",
                                        style |-> "img",
                                        class |-> {"my-formatted"}])>>, d)

\* cleanupEmptyTags($)
cleanupEmptyTags(d) ==
    RewriteTree(LAMBDA n, parent :
        IF /\ n.tag = "p"
           /\ TextOf(n) = <<>>
           /\ ~FindAny(TagSels({"a", "img", "video", "iframe", "input"}), n)
        THEN <<"drop">> ELSE <<"keep">>, d)

\* collapseExcessiveBrs($, maxConsecutive = 2), on the children of one element.
\* alive: the positions still attached. .next() is the next element sibling.
maxConsecutive == 2

NextElem(s, alive, i) ==
    LET later == {k \in alive : k > i /\ IsElem(s[k])}
    IN  IF later = {} THEN 0 ELSE CHOOSE k \in later : \A j \in later : k <= j

RECURSIVE BrRun(_, _, _)
\* the br elements that follow position i without another element in between
BrRun(s, alive, i) ==
    LET k == NextElem(s, alive, i) IN
    IF k = 0 \/ s[k].tag # "br" THEN <<>> ELSE <<k>> \o BrRun(s, alive, k)

RECURSIVE CollapseFrom(_, _, _)
CollapseFrom(s, alive, i) ==
    IF i > Len(s) THEN alive
    ELSE IF s[i].tag # "br" \/ i \notin alive THEN CollapseFrom(s, alive, i + 1)
    ELSE LET run   == BrRun(s, alive, i)
             count == 1 + Len(run)
             gone  == IF count > maxConsecutive
                      THEN {run[j] : j \in 1..(count - maxConsecutive)}
                      ELSE {}
         IN  CollapseFrom(s, alive \ gone, i + 1)

CollapseKids(s) ==
    LET alive == CollapseFrom(s, DOMAIN s, 1)
        RECURSIVE Keep(_)
        Keep(i) == IF i > Len(s) THEN <<>>
                   ELSE (IF i \in alive THEN <<s[i]>> ELSE <<>>) \o Keep(i + 1)
    IN  Keep(1)

collapseExcessiveBrs(d) ==
    LET RECURSIVE M(_)
        M(n) == LET ks == CollapseKids(n.kids)
                IN  [n EXCEPT !.kids = [i \in DOMAIN ks |-> M(ks[i])]]
    IN M(d)

\* injectResetCSS($)
ResetStyle == N("style", [id |-> "ua-reset"], <<Txt("css")>>)

injectResetCSS(d) ==
    LET RECURSIVE M(_)
        M(n) == IF n.tag = "head"
                THEN [n EXCEPT !.kids = <<ResetStyle>> \o [i \in DOMAIN n.kids |-> M(n.kids[i])]]
                ELSE [n EXCEPT !.kids = [i \in DOMAIN n.kids |-> M(n.kids[i])]]
    IN M(d)

\* All matches of sels, in document order.
RECURSIVE AllIn(_, _, _)
RECURSIVE AllInSeq(_, _, _)
AllIn(sels, n, parent) ==
    (IF MatchesAny(sels, n, parent) THEN <<n>> ELSE <<>>) \o AllInSeq(sels, n.kids, n)
AllInSeq(sels, s, parent) ==
    IF s = <<>> THEN <<>> ELSE AllIn(sels, Head(s), parent) \o AllInSeq(sels, Tail(s), parent)
All(sels, d) == AllIn(sels, d, NoNode)

\* $(node).insertBefore($(sels)) for a single target: node goes in front of it
RECURSIVE InsertBeforeFirst(_, _, _, _)
InsertBeforeFirst(sels, s, parent, node) ==
    IF s = <<>> THEN [s |-> <<>>, hit |-> FALSE]
    ELSE IF MatchesAny(sels, Head(s), parent)
         THEN [s |-> <<node>> \o s, hit |-> TRUE]
    ELSE LET inner == InsertBeforeFirst(sels, Head(s).kids, Head(s), node) IN
         IF inner.hit
         THEN [s |-> <<[Head(s) EXCEPT !.kids = inner.s]>> \o Tail(s), hit |-> TRUE]
         ELSE LET t == InsertBeforeFirst(sels, Tail(s), parent, node)
              IN  [s |-> <<Head(s)>> \o t.s, hit |-> t.hit]

\* The tree without the k-th match of sels (k counted in document order).
RECURSIVE DetachNth(_, _, _, _)
DetachNth(sels, s, parent, k) ==
    IF s = <<>> THEN [s |-> <<>>, left |-> k]
    ELSE LET here == MatchesAny(sels, Head(s), parent) IN
         IF here /\ k = 1 THEN [s |-> Tail(s), left |-> 0]
         ELSE LET k1    == IF here THEN k - 1 ELSE k
                  inner == DetachNth(sels, Head(s).kids, Head(s), k1)
              IN  IF inner.left = 0
                  THEN [s |-> <<[Head(s) EXCEPT !.kids = inner.s]>> \o Tail(s), left |-> 0]
                  ELSE LET t == DetachNth(sels, Tail(s), parent, inner.left)
                       IN  [s |-> <<Head(s)>> \o t.s, left |-> t.left]

\* formatPage($, pageUrl)
formatPage(d, page) ==
    LET headerSel == {Sel("header", "", "section-box", "")}
        target    == {Sel("div", "article-contents", "", "")}
        headers   == All(headerSel, d)
    IN  IF ~UrlParses(page) \/ page.host # "vippers.jp" THEN d
        ELSE IF Len(headers) < 2 \/ ~Exists(target, d) THEN d
        ELSE LET without == DetachNth(headerSel, d.kids, d, 2).s
             IN  [d EXCEPT !.kids = InsertBeforeFirst(target, without, d, headers[2]).s]

-----------------------------------------------------------------------------
(* processPaging *)

\* One turn of the while loop up to its await: the loop is left (no link, or a
\* link without href), new URL(href, currentUrl) throws, or a fetch is issued.
\* The loop head fetching the href as written, without resolving it against
\* currentUrl.
PagingTurn_rawHref(nextPageLink, cur) ==
    IF nextPageLink = NoNode THEN [k |-> "leave", url |-> NoUrl]
    ELSE IF ~HasAttr(nextPageLink, "href") \/ Attr(nextPageLink, "href").form = "none"
         THEN [k |-> "leave", url |-> NoUrl]
    ELSE IF ~UrlResolves(Attr(nextPageLink, "href")) THEN [k |-> "throw", url |-> NoUrl]
    ELSE [k |-> "fetch", url |-> Attr(nextPageLink, "href")]

PagingTurn(nextPageLink, cur) ==
    IF nextPageLink = NoNode THEN [k |-> "leave", url |-> NoUrl]
    ELSE IF ~HasAttr(nextPageLink, "href") \/ Attr(nextPageLink, "href").form = "none"
         THEN [k |-> "leave", url |-> NoUrl]
    ELSE IF ~UrlResolves(Attr(nextPageLink, "href")) THEN [k |-> "throw", url |-> NoUrl]
    ELSE [k |-> "fetch", url |-> ResolveUrl(Attr(nextPageLink, "href"), cur)]

\* What one fetched page adds to nextPageContents.
PageContents(next) ==
    LET articleBody == First(ArticleBodySel, next)
    IN  IF articleBody # NoNode THEN articleBody.kids ELSE <<>>

\* After the loop: append what was collected, remove the pager.
AppendCollected(d, contents) ==
    LET appended == IF Exists(ArticleBodySel, d)
                    THEN AppendFirst(ArticleBodySel, d, NoNode, contents).n
                    ELSE d
    IN  RemoveAll({Sel("div", "", "article-inner-pager", "")}, appended)

-----------------------------------------------------------------------------
(* processArticleHtml, steps 3 to 13 and the serialization *)

AfterScripts(d, hosts)   == removeScripts(d, hosts)
AfterSelectors(d, hosts, sels) == removeSelectors(AfterScripts(d, hosts), sels)

MediaSteps(d, hosts) ==
    normalizeImages(normalizeIframes(unwrapAnchoredMedia(unwrapImgur(d)), hosts))

FinalTree(d, hosts, sels, page) ==
    formatPage(
        injectResetCSS(
            collapseExcessiveBrs(
                cleanupEmptyTags(
                    MediaSteps(AfterSelectors(d, hosts, sels), hosts)))),
        page)

-----------------------------------------------------------------------------
(* Inputs of processArticleHtml *)

Page1 == AbsUrl("x.com", "p1", "html")
Page2 == AbsUrl("y.com", "p2", "html")
Page3 == AbsUrl("y.com", "p3", "html")
\* a URL no server answers
Page9 == AbsUrl("x.com", "p9", "html")

TwitterHost == "platform.twitter.com"
WidgetsJs   == AbsUrl(TwitterHost, "widgets", "js")
EvilJs      == AbsUrl("evil.example", "evil", "js")

P(kids) == N("p", NoAttrs, kids)

\* Pieces of article markup, each the kind of element one pass is about.
Fragments ==
    { N("img", [src |-> AbsUrl("x.com", "a", "jpg"), onerror |-> "js"], <<>>),
      N("a", [href |-> AbsUrl("x.com", "about", "html"), onclick |-> "js"], <<Txt("t")>>),
      N("script", NoAttrs, <<Txt("code")>>),
      N("script", [src |-> EvilJs], <<>>),
      N("script", [src |-> WidgetsJs], <<>>),
      N("script", [src |-> RelUrl("local", "js")], <<>>),
      N("blockquote", ("data-id" :> "abcde") @@ [class |-> {"imgur-embed-pub"}], <<Txt("t")>>),
      N("a", [href |-> AbsUrl("x.com", "clip", "mp4")], <<Txt("t")>>),
      N("div", [class |-> {"ad"}], <<P(<<Txt("t")>>)>>),
      P(<<N("img", ("data-src" :> RelUrl("b", "jpg")) @@ [src |-> RelUrl("dummy", "gif")], <<>>)>>),
      N("div", NoAttrs, <<N("br", NoAttrs, <<>>), N("br", NoAttrs, <<>>),
                          N("br", NoAttrs, <<>>), N("br", NoAttrs, <<>>)>>),
      N("form", [onsubmit |-> "js"], <<Txt("t")>>),
      N("iframe", [src |-> AbsUrl(TwitterHost, "embed", "html")], <<>>),
      N("iframe", [src |-> AbsUrl("www.youtube.com", "embed", "html")], <<>>),
      N("img", [alt |-> "t"], <<>>),
      N("video", NoAttrs, <<N("source", [src |-> AbsUrl("x.com", "v", "mp4")], <<>>)>>),
      N("a", [href |-> AbsUrl("x.com", "full", "html")],
        <<N("img", [src |-> AbsUrl("x.com", "thumb", "jpg")], <<>>)>>),
      P(<<Txt("")>>) }

\* Single-page articles: one or two pieces in the body.
PlainDocs ==
    {Document(<<>>, <<f>>) : f \in Fragments}
    \cup {Document(<<>>, <<f, g>>) : f \in Fragments, g \in Fragments}

\* Elements with more than one signal of a media URL.
MediaFragments ==
    { N("a", [href |-> WithQuery(AbsUrl("x.com", "a", "jpg"), AbsUrl("y.com", "b", "jpg"))],
        <<Txt("t")>>),
      N("a", [href |-> WithQuery(AbsUrl("x.com", "jump", "html"), AbsUrl("y.com", "b", "mp4"))],
        <<N("img", [src |-> AbsUrl("x.com", "thumb", "jpg")], <<>>)>>),
      N("a", [href |-> AbsUrl("x.com", "a", "jpg")],
        <<N("img", [src |-> AbsUrl("x.com", "thumb", "jpg")], <<>>)>>),
      N("a", [href |-> AbsUrl("x.com", "full", "html")],
        <<N("img", ("data-src" :> AbsUrl("x.com", "lazy", "jpg"))
                   @@ [src |-> AbsUrl("x.com", "thumb", "jpg")], <<>>),
          TxtUrl(AbsUrl("x.com", "text", "jpg"))>>),
      N("a", [href |-> AbsUrl("x.com", "full", "html")],
        <<TxtUrl(AbsUrl("x.com", "text", "jpg"))>>),
      N("a", [href |-> AbsUrl("x.com", "full", "html")],
        <<N("img", [alt |-> "t"], <<>>), TxtUrl(AbsUrl("x.com", "text", "mp4"))>>),
      N("img", ("data-src" :> AbsUrl("x.com", "lazy", "jpg"))
               @@ [src |-> AbsUrl("x.com", "thumb", "jpg")], <<>>),
      N("img", ("data-src" :> AbsUrl("x.com", "page", "html"))
               @@ ("data-original" :> AbsUrl("x.com", "orig", "jpg"))
               @@ ("data-lazy-src" :> AbsUrl("x.com", "lazy2", "mp4"))
               @@ [src |-> AbsUrl("x.com", "thumb", "jpg")], <<>>),
      N("img", ("data-src" :> AbsUrl("x.com", "page", "html"))
               @@ [src |-> AbsUrl("x.com", "thumb", "jpg")], <<>>) }

\* Articles made of one such element.
MediaDocs == {Document(<<>>, <<f>>) : f \in MediaFragments}

\* Links and images with a reference to resolve, or to leave alone.
LinkFragments ==
    { N("a", [href |-> FragUrl], <<Txt("t")>>),
      N("a", [href |-> RelUrl("next", "html")], <<Txt("t")>>),
      N("img", [src |-> RelUrl("a/b", "jpg")], <<>>),
      N("a", [href |-> AbsUrl("y.com", "about", "html")],
        <<N("img", [src |-> RelUrl("a/b", "jpg")], <<>>)>>) }

\* Articles made of one such element.
LinkDocs == {Document(<<>>, <<f>>) : f \in LinkFragments}

\* The "next page" links a page can carry.
NavLink(href) == N("p", [class |-> {"next"}],
                   <<N("a", [class |-> {"pagingNav"}, href |-> href], <<Txt("next")>>)>>)
NavNoHref     == N("p", [class |-> {"next"}],
                   <<N("a", [class |-> {"pagingNav"}], <<Txt("next")>>)>>)
NoNav         == P(<<Txt("end")>>)

\* A page of a multi-page article: its text, what else its body holds, its link.
PagedDoc(text, extra, nav) ==
    Document(<<>>,
      <<N("div", [id |-> "article-contents"],
          <<N("div", [class |-> {"article-body"}], <<P(<<Txt(text)>>)>> \o extra),
            nav,
            N("div", [class |-> {"article-inner-pager"}], <<>>)>>)>>)

Nav1 == {NavLink(Page2), NavLink(Page3), NavLink(Page9), NavLink(BadUrl), NavNoHref}
Nav2 == {NoNav, NavLink(Page3), NavLink(RelUrl("p3", "html")), NavLink(Page1),
         NavLink(BadUrl), NavNoHref}
Nav3 == {NoNav, NavLink(Page1), NavLink(Page2)}

Extra2 == <<N("script", [src |-> EvilJs], <<>>), N("script", [src |-> WidgetsJs], <<>>),
           N("script", NoAttrs, <<Txt("code")>>)>>
Extra3 == <<N("img", [src |-> AbsUrl("y.com", "c", "jpg")], <<>>)>>

\* The sites the fetcher reaches, for each choice of links.
Webs ==
    { (Page1 :> PagedDoc("one", <<>>, n1)) @@ (Page2 :> PagedDoc("two", Extra2, n2))
        @@ (Page3 :> PagedDoc("three", Extra3, n3)) :
      n1 \in Nav1, n2 \in Nav2, n3 \in Nav3 }

\* removeSelectorsList
SelectorLists ==
    { <<>>, <<Sel("div", "", "ad", "")>>, <<TagSel("img")>>, <<TagSel("video")>>,
      <<TagSel("style")>>, <<Sel("div", "", "ad", ""), TagSel("a")>>,
      <<InvalidSel, TagSel("form")>> }

HostSets == { {}, {TwitterHost}, {TwitterHost, "x.com", "www.youtube.com"} }

NoWeb == [u \in {} |-> NoNode]

-----------------------------------------------------------------------------
(* processArticleHtml as a state machine: one action per stretch of code     *)
(* between awaits                                                            *)

\* The loop is left: processPaging finishes, steps 3..13 run, the call returns.
Return(d, contents, paged) ==
    LET merged == IF paged THEN AppendCollected(d, contents) ELSE d
    IN  /\ pc' = "done"
        /\ afterPaging' = merged
        /\ afterRemove' = AfterSelectors(merged, allowHosts, selectors)
        /\ doc' = FinalTree(merged, allowHosts, selectors, pageUrl)
        /\ result' = Serialize(FinalTree(merged, allowHosts, selectors, pageUrl))
        /\ nextPageContents' = contents
        /\ pendingUrl' = NoUrl

\* The loop goes on from its head with this link.
Continue(d, link, cur, contents) ==
    LET turn == PagingTurn(link, cur) IN
    /\ currentUrl' = cur
    /\ CASE turn.k = "fetch" ->
                /\ pc' = "fetching"
                /\ pendingUrl' = turn.url
                /\ doc' = d
                /\ nextPageContents' = contents
                /\ UNCHANGED <<afterPaging, afterRemove, result>>
         [] turn.k = "throw" ->
                /\ pc' = "threw"
                /\ pendingUrl' = NoUrl
                /\ doc' = d
                /\ nextPageContents' = contents
                /\ UNCHANGED <<afterPaging, afterRemove, result>>
         [] turn.k = "leave" -> Return(d, contents, TRUE)

\* processArticleHtml(html, pageUrl, removeSelectorsList, allowHosts) is called
ProcessArticleHtml ==
    /\ mode = "generic" /\ pc = "ready"
    /\ LET d == absolutizePaths(doc, pageUrl) IN
       IF checkPagingContents(d)
       THEN Continue(d, First(PagingNavSel, d), pageUrl, <<>>)
       ELSE Return(d, <<>>, FALSE) /\ currentUrl' = pageUrl
    /\ UNCHANGED <<variant, rule, outcome, htmls, html, mode, pageUrl, selectors, allowHosts, web, fetchLog>>
    /\ UNCHANGED otherVars

\* fetchHtml answers with the page
FetchReturns ==
    /\ mode = "generic" /\ pc = "fetching"
    /\ pendingUrl \in DOMAIN web
    /\ Len(fetchLog) < MaxFetches
    /\ fetchLog' = Append(fetchLog, [url |-> pendingUrl, ok |-> TRUE])
    /\ LET next == web[pendingUrl] IN
       Continue(doc, First(PagingNavSel, next), pendingUrl,
                nextPageContents \o PageContents(next))
    /\ UNCHANGED <<variant, rule, outcome, htmls, html, mode, pageUrl, selectors, allowHosts, web>>
    /\ UNCHANGED otherVars

\* A failed fetch that throws the accumulated pages away.
FetchFails_discard ==
    /\ mode = "generic" /\ pc = "fetching"
    /\ fetchLog' = Append(fetchLog, [url |-> pendingUrl, ok |-> FALSE])
    /\ Return(doc, <<>>, TRUE)
    /\ UNCHANGED <<variant, rule, outcome, htmls, html, mode, pageUrl, selectors, allowHosts, web, currentUrl>>
    /\ UNCHANGED otherVars

\* fetchHtml answers '' (HTTP error, timeout, network failure, empty body)
FetchFails ==
    /\ mode = "generic" /\ pc = "fetching"
    /\ fetchLog' = Append(fetchLog, [url |-> pendingUrl, ok |-> FALSE])
    /\ Return(doc, nextPageContents, TRUE)
    /\ UNCHANGED <<variant, rule, outcome, htmls, html, mode, pageUrl, selectors, allowHosts, web, currentUrl>>
    /\ UNCHANGED otherVars

-----------------------------------------------------------------------------
(* baseExtract: rule-driven extraction (specified_scraper.ts)                *)
(*                                                                           *)
(* A rule (ExtractOpt) is a record. The modelled rules leave                 *)
(* iframeSrcToWithSuffixInItemFix, simplifyVideoElement, removeEmptyTag,     *)
(* reducebr, removeAffiID, fixBase64Img, imgurToImg, removeTagStr and        *)
(* toFullURL unset, so baseExtract skips those passes.                       *)

\* A selector option that is not set
NoSel == Sel("", "", "", "")

\* sanitizedAddTags: <<>> when the rule does not set it, <<tags>> when it does
Unset == <<>>

ExtractOpt(main, removes, anchors, lazy, addTags, twitter, removeStr) ==
    [mainSelectorTag |-> main, removeSelectorTags |-> removes,
     transVisibleImage |-> anchors, imgDataSrcToImgSrc |-> lazy,
     sanitizedAddTags |-> addTags, twitterEmbed |-> twitter,
     removeString |-> removeStr]

\* /\.(mp4|webm|mov|m4v)(\?.*)?$/i and /\.(jpe?g|png|gif|webp)(\?.*)?$/i
IsVideoUrlQ(u) == u.ext = "mp4" \/ EndExt(u) = "mp4"
IsImageUrlQ(u) == u.ext \in {"jpg", "jpeg"} \/ EndExt(u) \in {"jpg", "jpeg"}

\* attr(a) || "": the attribute's value, the empty string when it is absent
AttrOr(n, a) == IF HasAttr(n, a) THEN Attr(n, a) ELSE NoUrl

\* for (const sel of opt.removeSelectorTags) root.find(sel).remove(): no try
\* around it, an invalid selector throws out of baseExtract
removeSelectorTags(root, sels) ==
    IF \E i \in DOMAIN sels : ~SelectorValid(sels[i])
    THEN [threw |-> TRUE, root |-> root]
    ELSE [threw |-> FALSE,
          root  |-> removeSelectors(root, sels)]

\* opt.transVisibleImage: an anchor around media becomes the media element
transVisibleImage(root, sel) ==
    RewriteTree(
        LAMBDA n, parent :
            IF ~(Matches(sel, n, parent) /\ FindAny(TagSels({"img", "video", "source"}), n))
            THEN <<"keep">>
            ELSE
            LET childVideo == FindFirst(TagSels({"video", "source"}), n)
                videoSrc == IF childVideo # NoNode /\ AttrOr(childVideo, "src") # NoUrl
                            THEN Attr(childVideo, "src") ELSE AttrOr(n, "href")
                img == FindFirst(TagSels({"img"}), n)
                imgSrc == IF img = NoNode THEN NoUrl
                          ELSE IF HasAttr(img, "src") THEN Attr(img, "src")
                          ELSE AttrOr(img, "data-src")
            IN  IF childVideo # NoNode /\ IsVideoUrlQ(videoSrc)
                THEN <<"put", N("video", [src |-> videoSrc, controls |-> "",
                                          playsinline |-> "", style |-> "video"], <<>>)>>
                ELSE IF imgSrc # NoUrl /\ IsImageUrlQ(imgSrc)
                THEN <<"put", SetAttr(img, "src", imgSrc)>>
                ELSE <<"keep">>,
        root)

\* opt.imgDataSrcToImgSrc: img[tag] is replaced by a bare <img src=value>
imgDataSrcToImgSrc(root, tag) ==
    RewriteTree(
        LAMBDA n, parent :
            IF n.tag = "img" /\ HasAttr(n, tag) /\ Attr(n, tag) # NoUrl
            THEN <<"put", N("img", [src |-> Attr(n, tag)], <<>>)>>
            ELSE <<"keep">>,
        root)

\* noscript holding an iframe is replaced by that iframe, any other is removed
unwrapNoscript(root) ==
    RewriteTree(
        LAMBDA n, parent :
            IF n.tag # "noscript" THEN <<"keep">>
            ELSE LET frame == FindFirst(TagSels({"iframe"}), n) IN
                 IF frame = NoNode THEN <<"drop">>
                 ELSE IF HasAttr(frame, "data-src") /\ AttrOr(frame, "src") = NoUrl
                      THEN <<"put", SetAttr(frame, "src", Attr(frame, "data-src"))>>
                      ELSE <<"put", frame>>,
        root)

\* DOMPurify's default allowlists, restricted to the tags and attributes that
\* occur in the modelled documents ("data" and "url" are a text node's fields).
PurifyTags ==
    {"#text", "a", "article", "blockquote", "br", "div", "figure", "form",
     "header", "img", "main", "p", "source", "span", "style", "video"}
PurifyAttrs ==
    {"data", "url", "class", "id", "style", "loading", "type", "poster",
     "data-id", "data-src", "data-lazy-src", "data-original"}
\* elements DOMPurify removes together with their content
ForbidContents == {"iframe", "noscript", "script", "style", "video", "head", "title"}
\* const allow = opt.sanitizedAddTags ?? ["iframe", "script", "noscript"]
DefaultAddTags == {"iframe", "script", "noscript"}
\* ADD_ATTR
AddAttr == {"src", "alt", "href", "controls", "playsinline"}
AddAttrDb == AddAttr \cup {"referrerpolicy"}

\* The parser puts script and style elements that precede all body content
\* into <head>, which is not part of what sanitize returns.
RECURSIVE DropHeadContent(_)
DropHeadContent(s) ==
    IF s = <<>> THEN <<>>
    ELSE IF Head(s).tag \in {"script", "style"} \/ Head(s) = Txt("")
         THEN DropHeadContent(Tail(s))
         ELSE s

\* DOMPurify.sanitize(dirty, {ADD_TAGS: addTags, ADD_ATTR: addAttr})
RECURSIVE SanitizeSeq(_, _, _)
SanitizeNode(n, addTags, addAttr) ==
    IF n.tag \in PurifyTags \cup addTags
    THEN <<[tag   |-> n.tag,
            attrs |-> [a \in DOMAIN n.attrs \cap (PurifyAttrs \cup addAttr) |-> n.attrs[a]],
            kids  |-> SanitizeSeq(n.kids, addTags, addAttr)]>>
    ELSE IF n.tag \in ForbidContents THEN <<>>
    ELSE SanitizeSeq(n.kids, addTags, addAttr)
SanitizeSeq(s, addTags, addAttr) ==
    IF s = <<>> THEN <<>>
    ELSE SanitizeNode(Head(s), addTags, addAttr) \o SanitizeSeq(Tail(s), addTags, addAttr)
Sanitize(dirty, addTags, addAttr) == SanitizeSeq(DropHeadContent(dirty), addTags, addAttr)

\* A pass that appends the loader whatever the output holds.
twitterEmbed_always(out) ==
    out \o <<[tag |-> "script", attrs |-> [async |-> "", src |-> WidgetsJs]]>>

\* opt.twitterEmbed: the widgets.js loader is appended when the output has a
\* blockquote.twitter-tweet and does not mention the loader yet
twitterEmbed(out) ==
    IF /\ \E i \in DOMAIN out : out[i].tag = "blockquote" /\ "class" \in DOMAIN out[i].attrs
                                /\ "twitter-tweet" \in out[i].attrs.class
       /\ ~\E i \in DOMAIN out : "src" \in DOMAIN out[i].attrs /\ out[i].attrs.src = WidgetsJs
    THEN out \o <<[tag |-> "script", attrs |-> [async |-> "", src |-> WidgetsJs]]>>
    ELSE out

\* A removeString that is not a regular expression
BadRegex == "("

\* root.map(el => $(el).html()).join("\n")
RECURSIVE InnerHtml(_)
InnerHtml(roots) ==
    IF roots = <<>> THEN <<>> ELSE Head(roots).kids \o InnerHtml(Tail(roots))

\* The passes between removal and serialization, on one root element
Transforms(root, opt) ==
    LET t1 == IF opt.transVisibleImage # NoSel
              THEN transVisibleImage(root, opt.transVisibleImage) ELSE root
        t2 == IF opt.imgDataSrcToImgSrc # ""
              THEN imgDataSrcToImgSrc(t1, opt.imgDataSrcToImgSrc) ELSE t1
    IN  unwrapNoscript(t2)

\* An option the rule may leave out: opt.name, "" when it is undefined
Option(opt, name) == IF name \in DOMAIN opt THEN opt[name] ELSE ""

\* opt.toFullURL: root.find("[src]"), every src that does not start with
\* http(s):// becomes `${base}/${src without leading slashes}`; base is the
\* host the option names
toFullURL(root, base) ==
    RewriteTree(
        LAMBDA n, parent :
            IF HasAttr(n, "src") /\ ~LooksAbsolute(Attr(n, "src"))
            THEN <<"put", SetAttr(n, "src", [Attr(n, "src") EXCEPT !.form = "abs",
                                                                    !.host = base])>>
            ELSE <<"keep">>,
        root)

\* Sanitizing and the passes over the string; output is serialized before the
\* toFullURL pass works on root, and root is not serialized again.
\* [threw, out: the string returned, root: the tree as the call leaves it]
Finish(roots, opt, addAttr) ==
    LET allow == IF opt.sanitizedAddTags = Unset THEN DefaultAddTags
                 ELSE opt.sanitizedAddTags[1]
        clean == Sanitize(InnerHtml(roots), allow, addAttr)
        output == SerializeSeq(clean)
        o2 == IF opt.twitterEmbed THEN twitterEmbed(output) ELSE output
        rootAfter == IF Option(opt, "toFullURL") # ""
                     THEN [i \in DOMAIN roots |-> toFullURL(roots[i], opt.toFullURL)]
                     ELSE roots
    IN  IF opt.removeString = BadRegex
        THEN [threw |-> TRUE, out |-> <<>>, root |-> rootAfter]
        ELSE [threw |-> FALSE, out |-> o2, root |-> rootAfter]

\* baseExtract(html, opt): [threw, out]
baseExtract(d, opt) ==
    LET root == All({opt.mainSelectorTag}, d) IN
    IF root = <<>> THEN [threw |-> FALSE, out |-> <<>>]
    ELSE IF \E i \in DOMAIN root : removeSelectorTags(root[i], opt.removeSelectorTags).threw
    THEN [threw |-> TRUE, out |-> <<>>]
    ELSE Finish([i \in DOMAIN root |->
                    Transforms(removeSelectorTags(root[i], opt.removeSelectorTags).root, opt)],
                opt, AddAttr)

\* baseExtract of the database-backed revision: opt.transVisibleImage unwraps
\* every a[href] whose href is a media URL
transVisibleImageDb(root) ==
    RewriteTree(
        LAMBDA n, parent :
            IF n.tag = "a" /\ HasAttr(n, "href") /\ IsMediaUrl(Attr(n, "href"))
            THEN IF IsVideoUrlQ(Attr(n, "href"))
                 THEN <<"put", N("video", [src |-> Attr(n, "href"), controls |-> "",
                                           playsinline |-> "", style |-> "video"], <<>>)>>
                 ELSE <<"put", N("img", [src |-> Attr(n, "href"),
                                         referrerpolicy |-> "no-referrer",
                                         style |-> "img", loading |-> "lazy"], <<>>)>>
            ELSE <<"keep">>,
        root)

\* every img[src] without a referrerpolicy gets referrerpolicy="no-referrer"
addReferrerPolicy(root) ==
    RewriteTree(
        LAMBDA n, parent :
            IF n.tag = "img" /\ HasAttr(n, "src") /\ ~HasAttr(n, "referrerpolicy")
            THEN <<"put", SetAttr(n, "referrerpolicy", "no-referrer")>>
            ELSE <<"keep">>,
        root)

TransformsDb(root, opt) ==
    LET t1 == IF opt.transVisibleImage # NoSel THEN transVisibleImageDb(root) ELSE root
        t2 == IF opt.imgDataSrcToImgSrc # ""
              THEN imgDataSrcToImgSrc(t1, opt.imgDataSrcToImgSrc) ELSE t1
    IN  unwrapNoscript(addReferrerPolicy(t2))

baseExtractDb(d, opt) ==
    LET root == All({opt.mainSelectorTag}, d) IN
    IF root = <<>> THEN [threw |-> FALSE, out |-> <<>>]
    ELSE IF \E i \in DOMAIN root : removeSelectorTags(root[i], opt.removeSelectorTags).threw
    THEN [threw |-> TRUE, out |-> <<>>]
    ELSE Finish([i \in DOMAIN root |->
                    TransformsDb(removeSelectorTags(root[i], opt.removeSelectorTags).root, opt)],
                opt, AddAttrDb)

-----------------------------------------------------------------------------
(* getContent and the extractor table *)

\* What the rule store answers for the article's domain key
NoRule == [kind |-> "none", opt |-> <<>>]
\* a site row whose scrape_options is null
NoOptions == [kind |-> "noOptions", opt |-> <<>>]
SyncRule(opt) == [kind |-> "sync", opt |-> opt]

\* _kyarabetsunijiero_extract: the async extractor of the table and its rule
KyaraOpt ==
    ExtractOpt(Sel("div", "", "entry-content", ""), <<Sel("div", "", "pager", "")>>,
               ChildSel("figure", "", "a", ""), "", <<{}>>, FALSE, "")
KyaraRule == [kind |-> "async", opt |-> KyaraOpt]

\* "n/2ページ" in div.pager > div.total
PagerText == "1/2"

\* totalPages of _kyarabetsunijiero_extract
totalPages(d) ==
    LET total == First({ChildSel("div", "pager", "div", "total")}, d) IN
    IF total # NoNode /\ TextOf(total) = <<[data |-> PagerText]>> THEN 2 ELSE 1

\* `<main>\n${htmls.join("\n")}\n</main>`
RECURSIVE Join(_)
Join(hs) == IF hs = <<>> THEN <<>> ELSE Head(hs) \o Join(Tail(hs))
MainOf(hs) == <<[tag |-> "main", attrs |-> NoAttrs]>> \o Join(hs)

extractFrame == <<mode, variant, rule, doc, pageUrl, selectors, allowHosts, web,
                  currentUrl, pendingUrl, nextPageContents, fetchLog, afterPaging,
                  afterRemove>>

\* The call is over: it returned out, its promise rejected, or the process exited
Ends(how, out) ==
    /\ pc' = "done"
    /\ outcome' = how
    /\ result' = out

\* getContent(articleURL) is called: the key is looked up in EXTRACTOR, or the
\* site row is queried
GetContent ==
    /\ mode = "extract" /\ pc = "ready"
    /\ IF variant = "table"
       THEN IF rule.kind = "none"
            THEN Ends("returned", <<>>)
            ELSE pc' = "fetchingArticle" /\ UNCHANGED <<outcome, result>>
       ELSE pc' = "querying" /\ UNCHANGED <<outcome, result>>
    /\ UNCHANGED <<htmls, html>>
    /\ UNCHANGED extractFrame
    /\ UNCHANGED otherVars

\* The site query answers: an error, no row, a row without options, or a rule
QueryReturns ==
    /\ mode = "extract" /\ pc = "querying"
    /\ \E fetchError \in BOOLEAN :
          IF fetchError \/ rule.kind = "none" THEN Ends("exited", <<>>)
          ELSE IF rule.kind = "noOptions" THEN Ends("returned", <<>>)
          ELSE pc' = "fetchingArticle" /\ UNCHANGED <<outcome, result>>
    /\ UNCHANGED <<htmls, html>>
    /\ UNCHANGED extractFrame
    /\ UNCHANGED otherVars

\* getHtmlText(articleURL) answers; the extractor of the key runs up to its
\* first await or to its end
ArticleFetched ==
    /\ mode = "extract" /\ pc = "fetchingArticle"
    /\ \E empty \in BOOLEAN :
          /\ html' = IF empty THEN Txt("") ELSE doc
          /\ IF empty THEN Ends("returned", <<>>) /\ UNCHANGED htmls
             ELSE IF rule.kind = "sync"
             THEN LET tidy == IF variant = "table" THEN baseExtract(doc, rule.opt)
                              ELSE baseExtractDb(doc, rule.opt)
                  IN  /\ Ends("returned", IF tidy.threw THEN <<>> ELSE tidy.out)
                      /\ UNCHANGED htmls
             ELSE LET extractedHTML == baseExtract(doc, rule.opt) IN
                  IF extractedHTML.threw THEN Ends("rejected", <<>>) /\ UNCHANGED htmls
                  ELSE IF totalPages(doc) = 1
                  THEN Ends("returned", MainOf(<<extractedHTML.out>>))
                       /\ htmls' = <<extractedHTML.out>>
                  ELSE /\ pc' = "fetchingPage"
                       /\ htmls' = <<extractedHTML.out>>
                       /\ UNCHANGED <<outcome, result>>
    /\ UNCHANGED extractFrame
    /\ UNCHANGED otherVars

\* getHtmlText(articleURL) throws (the response is not ok)
ArticleFetchFails ==
    /\ mode = "extract" /\ pc = "fetchingArticle"
    /\ Ends("returned", <<>>)
    /\ UNCHANGED <<htmls, html>>
    /\ UNCHANGED extractFrame
    /\ UNCHANGED otherVars

\* A document without the root the rules look for
NoRootDoc == Document(<<>>, <<N("span", NoAttrs, <<Txt("gone")>>)>>)

\* _kyarabetsunijiero_extract: getHtmlText(url) of a further page answers
PageFetched ==
    /\ mode = "extract" /\ pc = "fetchingPage"
    /\ \E rawBody \in {doc, NoRootDoc} :
          LET extractedHTML == baseExtract(rawBody, rule.opt) IN
          /\ htmls' = Append(htmls, extractedHTML.out)
          /\ IF extractedHTML.threw THEN Ends("rejected", <<>>)
             ELSE IF Len(htmls) + 1 < totalPages(doc)
             THEN UNCHANGED <<pc, outcome, result>>
             ELSE Ends("returned", MainOf(Append(htmls, extractedHTML.out)))
    /\ UNCHANGED html
    /\ UNCHANGED extractFrame
    /\ UNCHANGED otherVars

\* _kyarabetsunijiero_extract: getHtmlText(url) of a further page throws
PageFetchFails ==
    /\ mode = "extract" /\ pc = "fetchingPage"
    /\ Ends("rejected", <<>>)
    /\ UNCHANGED <<htmls, html>>
    /\ UNCHANGED extractFrame
    /\ UNCHANGED otherVars

\* Pieces of article markup for the extractor
ExtractFragments ==
    { N("img", [src |-> AbsUrl("x.com", "a", "jpg"), onerror |-> "js"], <<>>),
      N("script", [src |-> EvilJs], <<>>),
      N("script", NoAttrs, <<Txt("code")>>),
      N("script", [src |-> WidgetsJs], <<>>),
      N("noscript", NoAttrs,
        <<N("iframe", ("data-src" :> AbsUrl("www.youtube.com", "embed", "html")), <<>>)>>),
      N("figure", NoAttrs,
        <<N("a", [href |-> AbsUrl("x.com", "full", "html")],
            <<N("img", [src |-> AbsUrl("x.com", "thumb", "jpg")], <<>>)>>)>>),
      N("img", ("data-src" :> AbsUrl("x.com", "b", "jpg")), <<>>),
      N("blockquote", [class |-> {"twitter-tweet"}], <<Txt("tweet")>>),
      N("a", [href |-> AbsUrl("x.com", "clip", "mp4")], <<Txt("t")>>),
      N("img", [src |-> RelUrl("up/c", "jpg")], <<>>) }

Pager == N("div", [class |-> {"pager"}],
           <<N("div", [class |-> {"total"}], <<Txt(PagerText)>>)>>)

Roots == { [tag |-> "article", attrs |-> NoAttrs],
           [tag |-> "div", attrs |-> [class |-> {"entry-content"}]] }

\* Articles: <root><p>text</p> one or two pieces [pager]</root>
ExtractDocs ==
    { Document(<<>>, <<N(r.tag, r.attrs, <<P(<<Txt("text")>>)>> \o body \o tail)>>) :
        r \in Roots,
        body \in {<<f>> : f \in ExtractFragments}
                 \cup {<<f, g>> : f \in ExtractFragments, g \in ExtractFragments},
        tail \in {<<>>, <<Pager>>} }

\* The rules of the table
TableRules ==
    { NoRule, KyaraRule,
      SyncRule(ExtractOpt(TagSel("article"), <<>>, NoSel, "", Unset, FALSE, "")),
      SyncRule(ExtractOpt(TagSel("article"), <<>>, NoSel, "", <<{}>>, FALSE, "")),
      SyncRule(ExtractOpt(TagSel("article"), <<TagSel("img")>>, ChildSel("figure", "", "a", ""),
                          "data-src", <<{"iframe"}>>, TRUE, "")),
      SyncRule(ExtractOpt(TagSel("article"), <<InvalidSel>>, NoSel, "", Unset, FALSE, "")),
      SyncRule(ExtractOpt(TagSel("article"), <<>>, NoSel, "", Unset, FALSE, BadRegex)),
      SyncRule(ExtractOpt(TagSel("article"), <<>>, NoSel, "", Unset, TRUE, "")),
      SyncRule(("toFullURL" :> "ertk.net")
               @@ ExtractOpt(TagSel("article"), <<>>, NoSel, "", Unset, FALSE, "")) }

\* The scrape_options of the site rows
DbRules ==
    { NoRule, NoOptions,
      SyncRule(ExtractOpt(TagSel("article"), <<>>, NoSel, "", Unset, FALSE, "")),
      SyncRule(ExtractOpt(TagSel("article"), <<TagSel("img")>>, TagSel("a"),
                          "data-src", <<{"iframe"}>>, TRUE, "")) }

InitExtract ==
    /\ mode = "extract" /\ pc = "ready"
    /\ pageUrl = Page1
    /\ doc \in ExtractDocs
    /\ \/ variant = "table" /\ rule \in TableRules
       \/ variant = "db" /\ rule \in DbRules
    /\ outcome = "none" /\ htmls = <<>> /\ result = <<>> /\ html = NoNode
    /\ selectors = <<>> /\ allowHosts = {} /\ web = NoWeb
    /\ currentUrl = NoUrl /\ pendingUrl = NoUrl
    /\ nextPageContents = <<>> /\ fetchLog = <<>>
    /\ afterPaging = NoNode /\ afterRemove = NoNode
    /\ OtherIdle

InitGeneric ==
    /\ mode = "generic" /\ pc = "ready"
    /\ pageUrl = Page1
    /\ \/ /\ doc \in PlainDocs
          /\ web = NoWeb
          /\ selectors \in SelectorLists
          /\ allowHosts \in HostSets
       \/ /\ doc \in MediaDocs \cup LinkDocs
          /\ web = NoWeb
          /\ selectors = <<>>
          /\ allowHosts \in HostSets
       \/ /\ web \in Webs
          /\ doc = web[Page1]
          /\ selectors \in {<<>>, <<TagSel("img")>>}
          /\ allowHosts \in {{}, {TwitterHost}}
    /\ currentUrl = NoUrl /\ pendingUrl = NoUrl
    /\ nextPageContents = <<>> /\ fetchLog = <<>>
    /\ afterPaging = NoNode /\ afterRemove = NoNode
    /\ result = <<>>
    /\ variant = "none" /\ rule = NoRule /\ outcome = "none" /\ htmls = <<>>
    /\ html = NoNode
    /\ OtherIdle

\* No call of the content pipeline
PipelineIdle ==
    /\ mode = "none" /\ pc = "idle" /\ pageUrl = NoUrl /\ doc = NoNode
    /\ variant = "none" /\ rule = NoRule
    /\ outcome = "none" /\ htmls = <<>> /\ result = <<>> /\ html = NoNode
    /\ selectors = <<>> /\ allowHosts = {} /\ web = NoWeb
    /\ currentUrl = NoUrl /\ pendingUrl = NoUrl
    /\ nextPageContents = <<>> /\ fetchLog = <<>>
    /\ afterPaging = NoNode /\ afterRemove = NoNode

Init == InitGeneric \/ InitExtract

Next ==
    \/ ProcessArticleHtml \/ FetchReturns \/ FetchFails
    \/ GetContent \/ QueryReturns \/ ArticleFetched \/ ArticleFetchFails
    \/ PageFetched \/ PageFetchFails

Spec == Init /\ [][Next]_vars

-----------------------------------------------------------------------------
(* Statements about processArticleHtml *)

\* The element tokens of a serialized output
Tokens(out) == {out[i] : i \in DOMAIN out}

\* C1: the string processArticleHtml returns holds no element and no attribute
\* outside the sanitizer allowlist (the document wrapper html/head/body aside).
C1_OutputWithinAllowlist ==
    (mode = "generic" /\ pc = "done") =>
        \A t \in Tokens(result) :
            /\ t.tag \in PurifyTags \cup DefaultAddTags \cup {"html", "head", "body"}
            /\ DOMAIN t.attrs \subseteq PurifyAttrs \cup AddAttrDb

C4_FetchesBounded == mode = "generic" => Len(fetchLog) <= MaxPageCount

\* The page a page's next link designates, by URL resolution against that page.
NextOf(u) ==
    LET link == First(PagingNavSel, web[u]) IN
    IF link = NoNode \/ ~HasAttr(link, "href") THEN NoUrl
    ELSE IF Attr(link, "href").form = "rel"
         THEN AbsUrl(u.host, Attr(link, "href").path, Attr(link, "href").ext)
         ELSE Attr(link, "href")

\* The continuation pages that follow page u, at most fuel of them.
RECURSIVE ChainFrom(_, _)
ChainFrom(u, fuel) ==
    IF fuel = 0 \/ u \notin DOMAIN web \/ NextOf(u) = NoUrl THEN <<>>
    ELSE <<NextOf(u)>> \o ChainFrom(NextOf(u), fuel - 1)

TheChain == ChainFrom(pageUrl, Cardinality(DOMAIN web) + 1)

\* page 1 -> page 2 -> ... -> last page, every page there, none twice
IsAcyclicChain ==
    /\ web # NoWeb
    /\ \A i \in DOMAIN TheChain : TheChain[i] \in DOMAIN web /\ TheChain[i] # pageUrl
    /\ \A i, j \in DOMAIN TheChain : TheChain[i] = TheChain[j] => i = j

\* The text that identifies a page ("one", "two", "three")
PageText(u) == TextOf(First({Sel("div", "", "article-body", "")}, web[u]))[1].data
PageTexts == {PageText(u) : u \in DOMAIN web}

\* The identifying texts in a tree, in document order
TextsIn(d) ==
    LET t == SelectSeq(TextOf(d), LAMBDA a : a.data \in PageTexts)
    IN  [i \in DOMAIN t |-> t[i].data]

FetchedUrls == [i \in DOMAIN fetchLog |-> fetchLog[i].url]
AllFetchesOk == \A i \in DOMAIN fetchLog : fetchLog[i].ok

\* C5: on an acyclic chain of N next-links the fetches follow the chain, one
\* at a time and in chain order; when all of them succeed there are exactly N
\* and the continuation pages' contents are appended in that order.
C5_ChainFetchedInOrder ==
    (mode = "generic" /\ IsAcyclicChain) =>
        /\ Len(fetchLog) <= Len(TheChain)
        /\ \A i \in DOMAIN fetchLog : fetchLog[i].url = TheChain[i]
        /\ pc = "fetching" =>
              /\ Len(fetchLog) < Len(TheChain)
              /\ pendingUrl = TheChain[Len(fetchLog) + 1]
        /\ (pc = "done" /\ AllFetchesOk) =>
              /\ FetchedUrls = TheChain
              /\ TextsIn(afterPaging) =
                    <<PageText(pageUrl)>> \o [i \in DOMAIN TheChain |-> PageText(TheChain[i])]

\* a chain of two continuation pages, the second reached through a relative
\* link, both fetched
C5_Witness ==
    /\ mode = "generic" /\ pc = "done" /\ IsAcyclicChain
    /\ Len(TheChain) = 2 /\ AllFetchesOk /\ Len(fetchLog) = 2
    /\ Attr(First(PagingNavSel, web[Page2]), "href").form = "rel"

\* C6: a failed fetch is the last fetch of the call, and the main article body
\* then holds the first page's content followed by the contents of the pages
\* fetched before the failure, in order.
C6_PartialResultKept ==
    mode = "generic" =>
        /\ \A i \in DOMAIN fetchLog :
              ~fetchLog[i].ok => (i = Len(fetchLog) /\ pc = "done")
        /\ (pc = "done" /\ fetchLog # <<>> /\ ~fetchLog[Len(fetchLog)].ok) =>
              LET got == SelectSeq(fetchLog, LAMBDA f : f.ok)
                  want == <<PageText(pageUrl)>> \o [i \in DOMAIN got |-> PageText(got[i].url)]
              IN  /\ TextsIn(afterPaging) = want
                  /\ TextsIn(doc) = want

\* two pages were fetched and the third fetch failed
C6_Witness ==
    /\ mode = "generic" /\ pc = "done"
    /\ Len(fetchLog) = 3
    /\ fetchLog[1].ok /\ fetchLog[2].ok /\ ~fetchLog[3].ok

\* C8: processArticleHtml never raises an exception to its caller.
C8_NeverRaises == mode = "generic" => pc # "threw"

-----------------------------------------------------------------------------
(* Statements about getContent and baseExtract *)

\* C3: a rule that sets only mainSelectorTag (nothing to remove, no
\* sanitizedAddTags, no other option) yields output without a script element.
C3_NoScriptByDefault ==
    (/\ mode = "extract" /\ outcome = "returned" /\ rule.kind = "sync"
     /\ rule.opt = ExtractOpt(rule.opt.mainSelectorTag, <<>>, NoSel, "", Unset, FALSE, ""))
    => \A t \in Tokens(result) : t.tag # "script"

\* C7: getContent of the extractor table never throws, and when the main
\* selector of the rule matches no node its result is the empty string.
C7_EmptyStringOnFailure ==
    (mode = "extract" /\ variant = "table") =>
        /\ outcome # "rejected"
        /\ (outcome = "returned" /\ rule.kind # "none"
            /\ ~Exists({rule.opt.mainSelectorTag}, doc)) => result = <<>>

\* C9: with no rule for the article's domain getContent returns the empty
\* string; the process is not terminated and no error surfaces.
C9_MissingRuleReturnsEmpty ==
    (mode = "extract" /\ rule.kind = "none") =>
        /\ outcome \notin {"exited", "rejected"}
        /\ pc = "done" => (outcome = "returned" /\ result = <<>>)

\* C11: an invalid selector among the removal selectors is skipped: the other
\* selectors are applied and the extraction gives the output it gives for the
\* rule without the invalid selector.
C11_InvalidSelectorSkipped ==
    /\ (mode = "generic" /\ pc = "done") =>
           afterRemove = removeSelectors(removeScripts(afterPaging, allowHosts),
                                         SelectSeq(selectors, SelectorValid))
    /\ (/\ mode = "extract" /\ outcome = "returned" /\ html = doc
        /\ rule.kind = "sync" /\ rule.opt.removeString # BadRegex
        /\ \E i \in DOMAIN rule.opt.removeSelectorTags :
              ~SelectorValid(rule.opt.removeSelectorTags[i]))
       => LET cleaned == [rule.opt EXCEPT !.removeSelectorTags = SelectSeq(@, SelectorValid)]
          IN  result = IF variant = "table" THEN baseExtract(doc, cleaned).out
                       ELSE baseExtractDb(doc, cleaned).out

\* processArticleHtml run on the document it returned, with the same page
\* URL, removal selectors and allowed hosts (when that run does not paginate)
SecondRun == FinalTree(absolutizePaths(doc, pageUrl), allowHosts, selectors, pageUrl)

\* C12: processArticleHtml applied to its own output returns that output
\* unchanged.
C12_PipelineIdempotent ==
    (mode = "generic" /\ pc = "done" /\ ~checkPagingContents(doc)) =>
        Serialize(SecondRun) = result

\* The first media URL in a list of candidate signals, NoUrl when there is none
FirstMedia(cands) ==
    LET hits == SelectSeq(cands, IsMediaUrl)
    IN  IF hits = <<>> THEN NoUrl ELSE hits[1]

\* The signals of one element, each NoUrl when the element does not carry it
LazySignals(n) == [i \in DOMAIN LazyAttrs |-> IF HasAttr(n, LazyAttrs[i])
                                              THEN Attr(n, LazyAttrs[i]) ELSE NoUrl]
DirectSignal(n) ==
    IF HasAttr(n, "href") THEN Attr(n, "href")
    ELSE IF HasAttr(n, "src") THEN Attr(n, "src") ELSE NoUrl
QuerySignal(n) ==
    IF HasAttr(n, "href") /\ Attr(n, "href").form = "abs" /\ Attr(n, "href").q # <<>>
       /\ Attr(n, "href").q[1].form = "abs"
    THEN Attr(n, "href").q[1] ELSE NoUrl
NestedSignal(n) ==
    LET m == FindFirst(TagSels({"img", "video", "source"}), n)
    IN  IF m = NoNode THEN NoUrl ELSE FirstMedia(LazySignals(m) \o <<DirectSignal(m)>>)
TextSignal(n) ==
    IF Len(TextOf(n)) = 1 /\ TextOf(n)[1].data = "url" /\ TextOf(n)[1].url.form = "abs"
    THEN TextOf(n)[1].url ELSE NoUrl

\* The priority order as stated: lazy attribute, direct src/href, query
\* parameter, first descendant, text
StatedMedia(n) ==
    IF n.tag = "a"
    THEN FirstMedia(LazySignals(n) \o
                    <<DirectSignal(n), QuerySignal(n), NestedSignal(n), TextSignal(n)>>)
    ELSE FirstMedia(LazySignals(n) \o <<DirectSignal(n)>>)

\* The priority order of the code: for an anchor query parameter, href, first
\* descendant, text; for any other element lazy attribute, src
CodeMedia(n) ==
    IF n.tag = "a"
    THEN FirstMedia(<<QuerySignal(n), DirectSignal(n), NestedSignal(n), TextSignal(n)>>)
    ELSE FirstMedia(LazySignals(n) \o <<DirectSignal(n)>>)

\* The article was a single a or img element
SingleMediaElement ==
    /\ mode = "generic" /\ pc = "done" /\ web = NoWeb /\ selectors = <<>>
    /\ Len(afterPaging.kids[2].kids) = 1
    /\ afterPaging.kids[2].kids[1].tag \in {"a", "img"}

\* The element the pipeline emitted for it carries url
EmittedWith(url) ==
    /\ Len(doc.kids[2].kids) = 1
    /\ doc.kids[2].kids[1].tag \in {"img", "video"}
    /\ Attr(doc.kids[2].kids[1], "src") = url

\* C13 as stated: the media URL of an element is the first signal in the
\* order lazy attribute, direct src/href, query parameter, descendant, text.
C13_StatedPriority ==
    (SingleMediaElement /\ StatedMedia(afterPaging.kids[2].kids[1]) # NoUrl) =>
        EmittedWith(StatedMedia(afterPaging.kids[2].kids[1]))

\* C13 as amended: for an anchor the order is query parameter, href, first
\* descendant (its lazy attributes before its src), text; for an img it is
\* lazy attribute, src.
C13_CodePriority ==
    (SingleMediaElement /\ CodeMedia(afterPaging.kids[2].kids[1]) # NoUrl) =>
        EmittedWith(CodeMedia(afterPaging.kids[2].kids[1]))

\* an anchor whose href is a media URL and carries another media URL in its
\* query string was resolved to the query value
C13_Witness ==
    /\ SingleMediaElement
    /\ LET a == afterPaging.kids[2].kids[1] IN
       /\ a.tag = "a" /\ IsMediaUrl(DirectSignal(a)) /\ Attr(a, "href").ext = "jpg"
       /\ QuerySignal(a) # NoUrl
       /\ EmittedWith(QuerySignal(a))

\* C14: every img and video of the output has a resolved src and carries
\* loading=lazy, referrerpolicy=no-referrer and the class my-formatted.
C14_MediaNormalized ==
    (mode = "generic" /\ pc = "done") =>
        \A i \in DOMAIN result :
            result[i].tag \in {"img", "video"} =>
                /\ "src" \in DOMAIN result[i].attrs
                /\ IsMediaUrl(result[i].attrs["src"])
                /\ "loading" \in DOMAIN result[i].attrs
                /\ result[i].attrs["loading"] = "lazy"
                /\ "referrerpolicy" \in DOMAIN result[i].attrs
                /\ result[i].attrs["referrerpolicy"] = "no-referrer"
                /\ "class" \in DOMAIN result[i].attrs
                /\ "my-formatted" \in result[i].attrs["class"]

-----------------------------------------------------------------------------
(* Semaphore (src/src/types/index.ts), as run() uses it for the site tasks   *)

\* The most site tasks one run submits, and the largest concurrency limit
MaxSites == 4
MaxLimit == 3

\* What the rest of the program does while the semaphore works
semaphoreFrame == <<pipelineVars, pLimitVars, smartFetchVars, maintenanceVars, apiVars,
                    runVars, scrapeVars>>

\* An acquire that hands out a slot whatever the counter says.
acquire_noLimit(r, q, l, t) == [running |-> r + 1, queue |-> q, granted |-> TRUE]

\* Semaphore.acquire() called for task t: a slot at once, or a place in the queue
acquire(r, q, l, t) ==
    IF r < l THEN [running |-> r + 1, queue |-> q, granted |-> TRUE]
    ELSE [running |-> r, queue |-> Append(q, t), granted |-> FALSE]

\* A release that wakes the waiter that came last.
release_last(r, q) ==
    IF q = <<>> THEN [running |-> r - 1, queue |-> q, next |-> 0]
    ELSE [running |-> (r - 1) + 1, queue |-> SubSeq(q, 1, Len(q) - 1), next |-> q[Len(q)]]

\* Semaphore.release(): the slot goes back, and straight to the first waiter
release(r, q) ==
    IF q = <<>> THEN [running |-> r - 1, queue |-> q, next |-> 0]
    ELSE [running |-> (r - 1) + 1, queue |-> Tail(q), next |-> q[1]]

\* run(): semaphore.execute(...) of the next site, up to its await this.acquire()
Execute(t) ==
    /\ t \in DOMAIN position /\ position[t] = "unsubmitted"
    /\ \A u \in 1..(t - 1) : position[u] # "unsubmitted"
    /\ LET a == acquire(running, queue, limit, t) IN
       /\ running' = a.running
       /\ queue' = a.queue
       /\ position' = [position EXCEPT ![t] = IF a.granted THEN "granted" ELSE "queued"]
    /\ UNCHANGED limit
    /\ UNCHANGED semaphoreFrame

\* execute: the await of acquire() is over, fn() is called
CallFn(t) ==
    /\ t \in DOMAIN position /\ position[t] \in {"granted", "resumed"}
    /\ position' = [position EXCEPT ![t] = "inFn"]
    /\ UNCHANGED <<limit, running, queue>>
    /\ UNCHANGED semaphoreFrame

\* execute: fn() resolves or rejects, the finally block releases
FnSettles(t) ==
    /\ t \in DOMAIN position /\ position[t] = "inFn"
    /\ \E how \in {"fulfilled", "rejected"} :
          LET r == release(running, queue) IN
          /\ running' = r.running
          /\ queue' = r.queue
          /\ position' = [u \in DOMAIN position |->
                             IF u = t THEN how
                             ELSE IF u = r.next THEN "resumed"
                             ELSE position[u]]
    /\ UNCHANGED limit
    /\ UNCHANGED semaphoreFrame

SemaphoreInit ==
    /\ limit \in 1..MaxLimit
    /\ running = 0 /\ queue = <<>>
    /\ \E n \in 0..MaxSites : position = [t \in 1..n |-> "unsubmitted"]
    /\ PipelineIdle /\ PLimitIdle /\ SmartFetchIdle /\ MaintenanceIdle /\ ApiIdle
    /\ RunIdle /\ ScrapeIdle

SemaphoreNext == \E t \in 1..MaxSites : Execute(t) \/ CallFn(t) \/ FnSettles(t)

SemaphoreSpec == SemaphoreInit /\ [][SemaphoreNext]_vars

\* The site tasks inside their task function
InFn == {t \in DOMAIN position : position[t] = "inFn"}

\* C15: under Semaphore.execute the number of task functions running at the
\* same time never exceeds the limit (running <= limit in every state), and
\* a waiter is queued only while running = limit.
C15_RunningWithinLimit ==
    /\ running <= limit
    /\ Cardinality(InFn) <= running
    /\ queue # <<>> => running = limit

\* every slot is taken by a running task function, a waiter is queued, and a
\* task has failed before
C15_Witness ==
    /\ Cardinality(InFn) = limit
    /\ queue # <<>>
    /\ \E t \in DOMAIN position : position[t] = "rejected"

\* The event loop runs every continuation that is ready, and (the premise of
\* the statement) every task function that runs settles.
SemaphoreLiveSpec ==
    /\ SemaphoreInit /\ [][SemaphoreNext]_vars
    /\ \A t \in 1..MaxSites : WF_vars(CallFn(t)) /\ WF_vars(FnSettles(t))

\* The tasks that have called acquire and not entered their function yet
Submitted == {t \in DOMAIN position : position[t] \in {"queued", "granted", "resumed"}}

\* A step that changes the queue appends the caller, or takes the oldest waiter
\* off and hands it the slot the releasing task held (running stays).
FifoHandOff ==
    queue' # queue =>
        \/ \E t \in DOMAIN position :
              /\ position[t] = "unsubmitted" /\ position'[t] = "queued"
              /\ queue' = Append(queue, t)
        \/ /\ queue # <<>> /\ queue' = Tail(queue)
           /\ position[queue[1]] = "queued" /\ position'[queue[1]] = "resumed"
           /\ running' = running

\* A task function that settles, by returning or by throwing, gives its slot
\* to a waiter or back to the semaphore.
SettleReleases ==
    \A t \in DOMAIN position :
        (position[t] = "inFn" /\ position'[t] \in {"fulfilled", "rejected"}) =>
            IF queue = <<>> THEN running' = running - 1
            ELSE running' = running /\ queue' = Tail(queue)

\* C29: every task submitted through Semaphore.execute eventually runs, given
\* that every running task settles; waiters are resumed in FIFO order, a
\* released slot goes straight to the oldest waiter, a throwing task releases
\* its slot too, and no waiter is queued while a slot is free.
C29_EveryTaskRuns ==
    /\ \A t \in 1..MaxSites : (t \in Submitted) ~> (t \in InFn)
    /\ [][FifoHandOff /\ SettleReleases]_vars
    /\ [](\A k \in DOMAIN queue : /\ position[queue[k]] = "queued"
                                   /\ \A j \in 1..(k - 1) : queue[j] < queue[k])
    /\ [](queue # <<>> => running = limit)

\* a task threw, its slot went to the oldest waiter, and another still waits
C29_Witness ==
    /\ \E t \in DOMAIN position : position[t] = "rejected"
    /\ \E t \in DOMAIN position : position[t] = "resumed"
    /\ queue # <<>>

-----------------------------------------------------------------------------
(* run() (src/unnamed/part_003): the site tasks under the semaphore, then    *)
(* maintainArticleLimit                                                      *)

\* What the rest of the program does while run() works
runFrame == <<pipelineVars, pLimitVars, smartFetchVars, maintenanceVars, apiVars,
              scrapeVars>>

\* A wait that is over as soon as one task has settled.
AllSettled_any(pos) == \E t \in DOMAIN pos : pos[t] \in {"fulfilled", "rejected"}

\* await Promise.all(tasks): every task has settled (.catch turns a rejection
\* into a value, so Promise.all never rejects)
AllSettled(pos) == \A t \in DOMAIN pos : pos[t] \in {"fulfilled", "rejected"}

\* prepare(): null when no site is due, and run() returns
Prepare ==
    /\ runAt = "prepare"
    /\ runAt' = IF Len(position) = 0 THEN "returned" ELSE "mapping"
    /\ UNCHANGED <<lastAccess, maintained>>
    /\ UNCHANGED semaphoreVars
    /\ UNCHANGED runFrame

\* sitesToScrape.map: semaphore.execute(...) for the next site, up to its
\* await this.acquire(); after the last site run() awaits Promise.all
MapSite(t) ==
    /\ runAt = "mapping"
    /\ t \in DOMAIN position /\ position[t] = "unsubmitted"
    /\ \A u \in 1..(t - 1) : position[u] # "unsubmitted"
    /\ LET a == acquire(running, queue, limit, t) IN
       /\ running' = a.running
       /\ queue' = a.queue
       /\ position' = [position EXCEPT ![t] = IF a.granted THEN "granted" ELSE "queued"]
    /\ runAt' = IF t = Len(position) THEN "awaiting" ELSE "mapping"
    /\ UNCHANGED <<limit, lastAccess, maintained>>
    /\ UNCHANGED runFrame

\* execute: the await of acquire() is over, scrapeSiteAndUpdateTimestamp is
\* called and awaits scrapeSite
StartSite(t) ==
    /\ runAt = "awaiting"
    /\ t \in DOMAIN position /\ position[t] \in {"granted", "resumed"}
    /\ position' = [position EXCEPT ![t] = "inFn"]
    /\ UNCHANGED <<limit, running, queue>>
    /\ UNCHANGED runVars
    /\ UNCHANGED runFrame

\* scrapeSite answers: updateLastAccess is called (insertedCount is never
\* negative); or it throws, the task rejects and the finally block releases
ScrapeSiteSettles(t) ==
    /\ t \in DOMAIN position /\ position[t] = "inFn"
    /\ \/ /\ position' = [position EXCEPT ![t] = "updating"]
          /\ UNCHANGED <<running, queue>>
       \/ LET r == release(running, queue) IN
          /\ running' = r.running
          /\ queue' = r.queue
          /\ position' = [u \in DOMAIN position |->
                             IF u = t THEN "rejected"
                             ELSE IF u = r.next THEN "resumed"
                             ELSE position[u]]
    /\ UNCHANGED limit
    /\ UNCHANGED runVars
    /\ UNCHANGED runFrame

\* updateLastAccess answers (it logs its own failure), the task returns
\* site.id and the finally block releases
UpdateLastAccessAnswers(t) ==
    /\ t \in DOMAIN position /\ position[t] = "updating"
    /\ \E updated \in BOOLEAN :
          lastAccess' = IF updated THEN lastAccess \cup {t} ELSE lastAccess
    /\ LET r == release(running, queue) IN
       /\ running' = r.running
       /\ queue' = r.queue
       /\ position' = [u \in DOMAIN position |->
                          IF u = t THEN "fulfilled"
                          ELSE IF u = r.next THEN "resumed"
                          ELSE position[u]]
    /\ UNCHANGED <<limit, runAt, maintained>>
    /\ UNCHANGED runFrame

\* Promise.all resolves, the results are logged, maintainArticleLimit is called
CallMaintain ==
    /\ runAt = "awaiting" /\ AllSettled(position)
    /\ maintained' = maintained + 1
    /\ runAt' = "maintaining"
    /\ UNCHANGED lastAccess
    /\ UNCHANGED semaphoreVars
    /\ UNCHANGED runFrame

\* maintainArticleLimit settles; run() returns, or rethrows what it threw
MaintainSettles ==
    /\ runAt = "maintaining"
    /\ runAt' \in {"finished", "threw"}
    /\ UNCHANGED <<lastAccess, maintained>>
    /\ UNCHANGED semaphoreVars
    /\ UNCHANGED runFrame

RunInit ==
    /\ limit \in 1..MaxLimit
    /\ running = 0 /\ queue = <<>>
    /\ \E n \in 0..MaxSites : position = [t \in 1..n |-> "unsubmitted"]
    /\ runAt = "prepare" /\ lastAccess = {} /\ maintained = 0
    /\ PipelineIdle /\ PLimitIdle /\ SmartFetchIdle /\ MaintenanceIdle /\ ApiIdle
    /\ ScrapeIdle

RunNext ==
    \/ Prepare
    \/ \E t \in 1..MaxSites :
          MapSite(t) \/ StartSite(t) \/ ScrapeSiteSettles(t) \/ UpdateLastAccessAnswers(t)
    \/ CallMaintain
    \/ MaintainSettles

\* Every await of run() and of its site tasks is answered in the end.
RunSpec == RunInit /\ [][RunNext]_vars /\ WF_vars(RunNext)

\* No site task is still under way
EverySiteSettled == \A t \in DOMAIN position : position[t] \in {"fulfilled", "rejected"}

\* What run() does for the sites whatever their number
SiteTasksIsolated ==
    /\ [](maintained <= 1)
    /\ [](maintained = 1 => EverySiteSettled)
    /\ [][maintained' # maintained => EverySiteSettled]_vars
    /\ [](\A t \in DOMAIN position : position[t] = "rejected" => t \notin lastAccess)
    /\ \A t \in 1..MaxSites :
          (t \in DOMAIN position /\ position[t] = "unsubmitted") ~>
              (t \in DOMAIN position /\ position[t] = "inFn")
    /\ \A t \in 1..MaxSites :
          (t \in DOMAIN position) ~>
              (t \in DOMAIN position /\ position[t] \in {"fulfilled", "rejected"})

\* C26 as stated: run() attempts every site and calls maintainArticleLimit
\* exactly once, only after every site task has settled; a site task that
\* throws stops neither the other tasks nor the maintenance step, and its
\* site's last_access is not updated.
C26_MaintainedOnce ==
    /\ SiteTasksIsolated
    /\ <>(maintained = 1)

\* C26 as amended: the same whenever prepare returns at least one site; when
\* no site is due run() returns without calling maintainArticleLimit.
C26_MaintainedOnceAfterSites ==
    /\ SiteTasksIsolated
    /\ (Len(position) > 0) => <>(maintained = 1)
    /\ (Len(position) = 0) => [](maintained = 0)

\* run() has finished after one site task threw and another went through
C26_Witness ==
    /\ runAt = "finished" /\ maintained = 1
    /\ \E t \in DOMAIN position : position[t] = "rejected"
    /\ \E t \in DOMAIN position : position[t] = "fulfilled" /\ t \in lastAccess

-----------------------------------------------------------------------------
(* pLimit (src/src/types/index.ts)                                           *)

\* The longest task list
MaxTasks == 4

\* What the rest of the program does during a pLimit call
pLimitFrame == <<pipelineVars, semaphoreVars, smartFetchVars, maintenanceVars, apiVars,
                 runVars, scrapeVars>>

\* The tasks whose promise has settled
Settled == {t \in DOMAIN tasks : tasks[t] \in {"fulfilled", "rejected"}}

\* The filter over executing: Promise.race([p, Promise.resolve('done')]) is a
\* Promise, and a Promise is never === 'done', so no entry passes
completed(ex) == SelectSeq(ex, LAMBDA p : FALSE)

\* executing with the completed promises spliced out
Spliced(ex) == SelectSeq(ex, LAMBDA p : \A k \in DOMAIN completed(ex) : completed(ex)[k] # p)

\* The loop moves on to the next task, or leaves for Promise.all
Advance ==
    /\ index' = index + 1
    /\ at' = IF index + 1 > Len(tasks) THEN "all" ELSE "loop"

\* One turn of the for loop up to its await: task i is called and pushed
StartTask ==
    /\ at = "loop"
    /\ tasks' = [tasks EXCEPT ![index] = "pending"]
    /\ executing' = Append(executing, index)
    /\ IF Len(executing) + 1 >= plimit
       THEN at' = "race" /\ UNCHANGED index
       ELSE Advance
    /\ UNCHANGED plimit
    /\ UNCHANGED pLimitFrame

\* A started task resolves or rejects while pLimit is suspended at an await
TaskSettles(t) ==
    /\ at \in {"race", "all"}
    /\ t \in DOMAIN tasks /\ tasks[t] = "pending"
    /\ \E how \in {"fulfilled", "rejected"} : tasks' = [tasks EXCEPT ![t] = how]
    /\ UNCHANGED <<plimit, index, executing, at>>
    /\ UNCHANGED pLimitFrame

\* await Promise.race(executing) is over: some promise of executing has settled
RaceResolves ==
    /\ at = "race"
    /\ \E k \in DOMAIN executing : executing[k] \in Settled
    /\ executing' = Spliced(executing)
    /\ Advance
    /\ UNCHANGED <<tasks, plimit>>
    /\ UNCHANGED pLimitFrame

\* await Promise.all(executing) is over, pLimit returns results
AllResolves ==
    /\ at = "all"
    /\ \A k \in DOMAIN executing : executing[k] \in Settled
    /\ at' = "returned"
    /\ UNCHANGED <<tasks, plimit, index, executing>>
    /\ UNCHANGED pLimitFrame

PLimitInit ==
    /\ plimit \in 1..MaxLimit
    /\ \E n \in 0..MaxTasks : tasks = [t \in 1..n |-> "notStarted"]
    /\ index = 1 /\ executing = <<>>
    /\ at = IF tasks = <<>> THEN "all" ELSE "loop"
    /\ PipelineIdle /\ SemaphoreIdle /\ SmartFetchIdle /\ MaintenanceIdle /\ ApiIdle
    /\ RunIdle /\ ScrapeIdle

PLimitNext ==
    \/ StartTask
    \/ \E t \in 1..MaxTasks : TaskSettles(t)
    \/ RaceResolves
    \/ AllResolves

PLimitSpec == PLimitInit /\ [][PLimitNext]_vars

\* The started tasks that have not settled
Unsettled == {t \in DOMAIN tasks : tasks[t] = "pending"}

\* C16: pLimit runs at most `limit` tasks at the same time: a task is started
\* only while fewer than `limit` started tasks are still unsettled.
C16_AtMostLimitConcurrent ==
    /\ Cardinality(Unsettled) <= plimit
    /\ at = "loop" => Cardinality(Unsettled) < plimit

-----------------------------------------------------------------------------
(* smartFetchHtml: crawlee with fallback to the legacy fetch                 *)
(* (src/src/utils/smart-http-client.ts)                                      *)

\* The largest maxRetries option
MaxRetries == 4

\* What the rest of the program does during a smartFetchHtml call
smartFetchFrame == <<pipelineVars, semaphoreVars, pLimitVars, maintenanceVars, apiVars,
                     runVars, scrapeVars>>

\* What a fetch can answer: a page, an empty body, or null (it threw)
Bodies == {"<html>", "", "null"}

\* !html
Falsy(b) == b \in {"", "null"}

\* A loop condition that allows one attempt more.
TryCrawlee_oneMore(a, m, h) == a <= m /\ Falsy(h)

\* The condition of the stage-1 loop: attempt < maxRetries && !html
TryCrawlee(a, m, h) == a < m /\ Falsy(h)

\* A fetch is issued through via ("crawlee" or "legacy") and awaited
Issue(via) ==
    /\ calls' = Append(calls, [via |-> via, body |-> "pending"])
    /\ stage' = via

\* The awaited fetch answered b
Answered(b) == [calls EXCEPT ![Len(calls)].body = b]

\* smartFetchHtml returns h
ReturnHtml(h) == stage' = "returned" /\ fetched' = h

\* smartFetchHtml(url, options) is called and runs to its first await
SmartFetchHtml ==
    /\ stage = "called"
    /\ IF strategy = "fetch" THEN Issue("legacy") /\ UNCHANGED attempt
       ELSE IF TryCrawlee(attempt, maxRetries, "null")
       THEN attempt' = attempt + 1 /\ Issue("crawlee")
       ELSE Issue("legacy") /\ UNCHANGED attempt
    /\ UNCHANGED <<strategy, maxRetries, fetched>>
    /\ UNCHANGED smartFetchFrame

\* fetchWithCrawlee answers: the body is returned, or the wait before the
\* retry starts, or the loop is over and the legacy fetch is issued
CrawleeAnswers ==
    /\ stage = "crawlee"
    /\ \E b \in Bodies :
          IF ~Falsy(b)
          THEN calls' = Answered(b) /\ ReturnHtml(b)
          ELSE IF attempt < maxRetries
          THEN calls' = Answered(b) /\ stage' = "waiting" /\ UNCHANGED fetched
          ELSE /\ calls' = Append(Answered(b), [via |-> "legacy", body |-> "pending"])
               /\ stage' = "legacy"
               /\ UNCHANGED fetched
    /\ UNCHANGED <<strategy, maxRetries, attempt>>
    /\ UNCHANGED smartFetchFrame

\* The wait before the retry is over: the loop condition is tested again
TimerFires ==
    /\ stage = "waiting"
    /\ IF TryCrawlee(attempt, maxRetries, calls[Len(calls)].body)
       THEN attempt' = attempt + 1 /\ Issue("crawlee")
       ELSE Issue("legacy") /\ UNCHANGED attempt
    /\ UNCHANGED <<strategy, maxRetries, fetched>>
    /\ UNCHANGED smartFetchFrame

\* fetchWithLegacyFetch answers, and its answer is what smartFetchHtml returns
LegacyAnswers ==
    /\ stage = "legacy"
    /\ \E b \in Bodies : calls' = Answered(b) /\ ReturnHtml(b)
    /\ UNCHANGED <<strategy, maxRetries, attempt>>
    /\ UNCHANGED smartFetchFrame

SmartFetchInit ==
    /\ strategy \in {"crawlee", "fetch"}
    /\ maxRetries \in 0..MaxRetries
    /\ attempt = 0 /\ stage = "called" /\ calls = <<>> /\ fetched = "none"
    /\ PipelineIdle /\ SemaphoreIdle /\ PLimitIdle /\ MaintenanceIdle /\ ApiIdle
    /\ RunIdle /\ ScrapeIdle

SmartFetchNext == SmartFetchHtml \/ CrawleeAnswers \/ TimerFires \/ LegacyAnswers

\* Every fetch is answered (each has a timeout) and every timer fires
SmartFetchSpec == SmartFetchInit /\ [][SmartFetchNext]_vars /\ WF_vars(SmartFetchNext)

\* The positions of calls issued through via
CallsVia(via) == {k \in DOMAIN calls : calls[k].via = via}

\* The 2-stage protocol, as far as the call has come
FallbackProtocol ==
    /\ Len(calls) <= maxRetries + 1
    /\ Cardinality(CallsVia("legacy")) <= 1
    /\ \A k \in DOMAIN calls : calls[k].body = "pending" => k = Len(calls)
    /\ strategy = "fetch" =>
          /\ CallsVia("crawlee") = {}
          /\ stage = "returned" => Len(calls) = 1 /\ fetched = calls[1].body
    /\ strategy = "crawlee" =>
          /\ Cardinality(CallsVia("crawlee")) <= maxRetries
          /\ \A k \in CallsVia("crawlee") :
                ~Falsy(calls[k].body) /\ calls[k].body # "pending" =>
                    /\ k = Len(calls)
                    /\ stage = "returned" /\ fetched = calls[k].body
          /\ \A k \in CallsVia("legacy") :
                /\ k = maxRetries + 1
                /\ \A j \in 1..(k - 1) : calls[j].via = "crawlee" /\ Falsy(calls[j].body)
          /\ stage = "returned" /\ Falsy(fetched) => CallsVia("legacy") # {}

\* C17: smartFetchHtml follows the 2-stage fallback protocol (at most
\* maxRetries crawlee attempts, the first non-empty answer returned without a
\* further call, the legacy fetch once and only after every crawlee attempt
\* failed, strategy 'fetch' never through crawlee), and it returns after at
\* most maxRetries + 1 fetches.
C17_TwoStageFallback == []FallbackProtocol /\ <>(stage = "returned")

\* every crawlee attempt failed and the legacy fetch, issued once, gave the page
C17_Witness ==
    /\ strategy = "crawlee" /\ maxRetries = MaxRetries /\ stage = "returned"
    /\ Len(calls) = maxRetries + 1
    /\ calls[Len(calls)].via = "legacy" /\ fetched = "<html>"

-----------------------------------------------------------------------------
(* maintainArticleLimit (src/src/services/article-maintenance.ts)            *)

\* The most rows of the article table
MaxRows == 4

\* What the rest of the program does during a maintainArticleLimit call
maintenanceFrame == <<pipelineVars, semaphoreVars, pLimitVars, smartFetchVars, apiVars,
                      runVars, scrapeVars>>

\* The first n entries of a sequence
Take(seq, n) == SubSeq(seq, 1, IF n < Len(seq) THEN n ELSE Len(seq))

\* The entries of a sequence
Range(seq) == {seq[k] : k \in DOMAIN seq}

\* ArticleRepository.fetchOldestIds(limit, excludeIds): the ids by ascending
\* created_at, without the excluded ones, cut at limit
fetchOldestIds(table, n, excludeIds) ==
    Take(SelectSeq(table, LAMBDA id : id \notin excludeIds), n)

\* maintainArticleLimit() is called; getTotalCount() answers the count, or 0
\* after an error
CountAnswers ==
    /\ step = "counting"
    /\ \E allCount \in {Len(articleTable), 0} :
          step' = IF allCount <= appConfig.maxArticles THEN "returned" ELSE "selecting"
    /\ UNCHANGED <<appConfig, articleTable, bookmarkTable, r2, staleArticleIds, deletedIds>>
    /\ UNCHANGED maintenanceFrame

\* fetchOldestIds(articlesToDeleteCount), called with no excludeIds, answers
\* the ids, or [] after an error; deleteByIds is issued unless the answer is
\* empty. allCount was the true count, since 0 is within every limit.
OldestAnswers ==
    /\ step = "selecting"
    /\ \E failed \in BOOLEAN :
          LET articlesToDeleteCount == Len(articleTable) - appConfig.maxArticles
              ids == IF failed THEN <<>>
                     ELSE fetchOldestIds(articleTable, articlesToDeleteCount, {})
          IN  /\ staleArticleIds' = ids
              /\ step' = IF ids = <<>> THEN "returned" ELSE "deleting"
    /\ UNCHANGED <<appConfig, articleTable, bookmarkTable, r2, deletedIds>>
    /\ UNCHANGED maintenanceFrame

\* deleteByIds(staleArticleIds) answers after some of its batches went through;
\* the contents are then deleted through the articles-api, each on its own
DeleteAnswers ==
    /\ step = "deleting"
    /\ \E batches \in 0..Len(staleArticleIds) :
          /\ (batches - 1) * appConfig.batchSize < Len(staleArticleIds)
          /\ LET gone == Range(Take(staleArticleIds, batches * appConfig.batchSize)) IN
             /\ articleTable' = SelectSeq(articleTable, LAMBDA id : id \notin gone)
             /\ deletedIds' = gone
             /\ IF gone = {} \/ ~appConfig.articlesApi
                THEN UNCHANGED r2
                ELSE \E ok \in SUBSET Range(staleArticleIds) : r2' = r2 \ ok
    /\ step' = "returned"
    /\ UNCHANGED <<appConfig, bookmarkTable, staleArticleIds>>
    /\ UNCHANGED maintenanceFrame

MaintenanceInit ==
    /\ \E n \in 0..MaxRows :
          /\ articleTable = [k \in 1..n |-> k]
          /\ bookmarkTable \in SUBSET (1..n)
          /\ r2 = 1..n
    /\ appConfig \in [maxArticles : 1..2, batchSize : 1..2, articlesApi : BOOLEAN]
    /\ staleArticleIds = <<>> /\ deletedIds = {} /\ step = "counting"
    /\ PipelineIdle /\ SemaphoreIdle /\ PLimitIdle /\ SmartFetchIdle /\ ApiIdle
    /\ RunIdle /\ ScrapeIdle

MaintenanceNext == CountAnswers \/ OldestAnswers \/ DeleteAnswers

MaintenanceSpec == MaintenanceInit /\ [][MaintenanceNext]_vars

\* C18: maintainArticleLimit preserves bookmarked articles: none of the ids
\* it deletes belongs to a bookmarked article.
C18_BookmarksPreserved == deletedIds \cap bookmarkTable = {}

\* C28: maintainArticleLimit deletes an article's content from R2 only if that
\* article's row was deleted from Supabase in the same run (every article that
\* remains in the table keeps its content), and deletes nothing when the
\* article count is at or below maxArticles.
C28_ContentFollowsRow ==
    step = "returned" =>
        /\ \A id \in Range(articleTable) : id \in r2
        /\ (Len(articleTable) + Cardinality(deletedIds) <= appConfig.maxArticles) =>
               (deletedIds = {} /\ r2 = 1..Len(articleTable))

-----------------------------------------------------------------------------
(* scrapeSite (src/src/services/rss-scraper.ts) over the article table       *)

\* The most items of a feed
MaxItems == 3

\* What the rest of the program does while scrapeSite works
scrapeFrame == <<pipelineVars, semaphoreVars, pLimitVars, smartFetchVars,
                 maintenanceVars, apiVars, runVars>>

\* The links of the feed items; NoLink is an item without a link
Links == {"u1", "u2"}
NoLink == ""

\* feed.items.map(item => item.link...).filter(url => !!url)
feedUrls(items) == {items[k] : k \in DOMAIN items} \ {NoLink}

\* The rows that keep a batch from being inserted: the article table takes a
\* url once (error 23505), and the rows of one insert go in together or not
\* at all
Conflicts(batch, stored) ==
    \/ \E k \in DOMAIN batch : batch[k] \in stored
    \/ \E j, k \in DOMAIN batch : j # k /\ batch[j] = batch[k]

\* fetchRssFeed answers: no feed, or no item with a link, ends the call
FeedAnswers ==
    /\ scrapeAt = "fetchRssFeed"
    /\ \E got \in BOOLEAN :
          scrapeAt' = IF ~got \/ feedUrls(feed) = {} THEN "returned" ELSE "checkExistingUrls"
    /\ UNCHANGED <<feed, storedUrls, existingUrls, articlesToProcess, item, processed,
                   inserted, uploaded>>
    /\ UNCHANGED scrapeFrame

\* checkExistingUrls(feedUrls) answers the stored ones, or the empty set after
\* an error
CheckAnswers ==
    /\ scrapeAt = "checkExistingUrls"
    /\ existingUrls' \in {feedUrls(feed) \cap storedUrls, {}}
    /\ item' = 1
    /\ scrapeAt' = "items"
    /\ UNCHANGED <<feed, storedUrls, articlesToProcess, processed, inserted, uploaded>>
    /\ UNCHANGED scrapeFrame

\* for (const item of feed.items): an item without a link or with an existing
\* url is passed over; processSingleArticle answers an article or null
ProcessItem ==
    /\ scrapeAt = "items" /\ item <= Len(feed)
    /\ LET link == feed[item] IN
       IF link = NoLink \/ link \in existingUrls
       THEN UNCHANGED <<processed, articlesToProcess>>
       ELSE /\ processed' = processed \cup {link}
            /\ \E article \in BOOLEAN :
                  articlesToProcess' = IF article THEN Append(articlesToProcess, link)
                                       ELSE articlesToProcess
    /\ item' = item + 1
    /\ UNCHANGED <<feed, storedUrls, existingUrls, scrapeAt, inserted, uploaded>>
    /\ UNCHANGED scrapeFrame

\* after the loop: nothing to insert, or insertMany(articlesToInsert) answers
\* the new rows, [] on error 23505, or throws on another error
InsertAnswers ==
    /\ scrapeAt = "items" /\ item > Len(feed)
    /\ IF articlesToProcess = <<>>
       THEN scrapeAt' = "returned" /\ UNCHANGED <<storedUrls, inserted>>
       ELSE IF Conflicts(articlesToProcess, storedUrls)
       THEN scrapeAt' = "returned" /\ UNCHANGED <<storedUrls, inserted>>
       ELSE \/ /\ storedUrls' = storedUrls \cup feedUrls(articlesToProcess)
               /\ inserted' = articlesToProcess
               /\ scrapeAt' = "saveArticleContent"
            \/ /\ scrapeAt' = "threw"
               /\ UNCHANGED <<storedUrls, inserted>>
    /\ UNCHANGED <<feed, existingUrls, articlesToProcess, item, processed, uploaded>>
    /\ UNCHANGED scrapeFrame

\* Promise.allSettled over saveArticleContent of every new row
UploadAnswers ==
    /\ scrapeAt = "saveArticleContent"
    /\ \E ok \in SUBSET feedUrls(inserted) : uploaded' = uploaded \cup ok
    /\ scrapeAt' = "returned"
    /\ UNCHANGED <<feed, storedUrls, existingUrls, articlesToProcess, item, processed,
                   inserted>>
    /\ UNCHANGED scrapeFrame

ScrapeInit ==
    /\ \E n \in 0..MaxItems : feed \in [1..n -> Links \cup {NoLink}]
    /\ storedUrls \in SUBSET Links
    /\ uploaded = storedUrls
    /\ existingUrls = {} /\ articlesToProcess = <<>> /\ item = 0 /\ processed = {}
    /\ inserted = <<>>
    /\ scrapeAt = "fetchRssFeed"
    /\ PipelineIdle /\ SemaphoreIdle /\ PLimitIdle /\ SmartFetchIdle /\ MaintenanceIdle
    /\ ApiIdle /\ RunIdle

ScrapeNext == FeedAnswers \/ CheckAnswers \/ ProcessItem \/ InsertAnswers \/ UploadAnswers

ScrapeSpec == ScrapeInit /\ [][ScrapeNext]_vars

\* C27: scrapeSite inserts every feed item whose url is not yet stored and whose
\* processing succeeded, whatever happens to the other items of the feed (one
\* that fails to process, a url that occurs twice, a url already stored); an
\* item whose url the batch check reported as existing is neither fetched nor
\* inserted.
C27_NewArticlesInserted ==
    scrapeAt = "returned" =>
        /\ \A u \in feedUrls(articlesToProcess) : u \in storedUrls
        /\ \A u \in existingUrls : u \notin processed /\ u \notin feedUrls(inserted)

-----------------------------------------------------------------------------
(* articles API: Hono handlers over the R2 bucket (src/unnamed/part_008)     *)

\* The most DELETE handlers suspended between their get and their delete
MaxDeletes == 2

\* What the rest of the program does while the API serves
apiFrame == <<pipelineVars, semaphoreVars, pLimitVars, smartFetchVars, maintenanceVars,
              runVars, scrapeVars>>

\* env.API_SECRET
API_SECRET == "s3cret"

\* The article ids and contents of the requests
ArticleIds == {"101", "102"}
Contents == {"<p>one</p>", "<p>two</p>"}

\* No object under the key
Absent == "absent"

\* Authorization headers: none, or the text before and after position 7
NoHeader == [present |-> FALSE, scheme |-> "", token |-> ""]
Header(scheme, token) == [present |-> TRUE, scheme |-> scheme, token |-> token]
AuthHeaders ==
    { NoHeader, Header("Bearer ", API_SECRET), Header("Bearer ", "wrong-token"),
      Header("Bearer ", ""), Header("Basic s", API_SECRET), Header("bearer ", API_SECRET) }

\* Request bodies of a PUT: not JSON, JSON without content, with a content
\* that is no string, with the empty string, with markup
PutBodies ==
    {[kind |-> k, content |-> ""] : k \in {"notJson", "noContent", "nonString", "empty"}}
    \cup {[kind |-> "html", content |-> c] : c \in Contents}

\* const key = `${articleId}.html`
Key(articleId) == <<articleId, ".html">>

\* c.env.articles_html.put(key, body.content, ...)
Stored(bucket, key, content) == [bucket EXCEPT ![key] = content]

\* A delete that leaves the object in the bucket.
Removed_kept(bucket, key) == bucket

\* c.env.articles_html.delete(key)
Removed(bucket, key) == [bucket EXCEPT ![key] = Absent]

\* !authHeader || !authHeader.startsWith('Bearer ')
NoBearer(authHeader) == ~authHeader.present \/ authHeader.scheme # "Bearer "

\* A token check that lets every token pass.
TokenOk_any(authHeader) == TRUE

\* const token = authHeader.substring(7); token === c.env.API_SECRET
TokenOk(authHeader) == authHeader.token = API_SECRET

\* An answer of the API, with what the handler did on the way
Answer(method, articleId, authHeader, kind, status, body, deleted, bodyRead, threw, seen) ==
    [method |-> method, id |-> articleId, auth |-> authHeader, kind |-> kind,
     status |-> status, body |-> body, deleted |-> deleted, bodyRead |-> bodyRead,
     threw |-> threw, seen |-> seen]

\* The 401 answer of the authentication check
Unauthorized(method, articleId, authHeader, kind) ==
    Answer(method, articleId, authHeader, kind, 401, "Unauthorized", FALSE, FALSE, FALSE, Absent)

\* The number of suspended DELETE handlers
RECURSIVE Pending(_, _)
Pending(d, keys) ==
    IF keys = {} THEN 0
    ELSE LET k == CHOOSE x \in keys : TRUE IN d[k] + Pending(d, keys \ {k})

\* app.get('/articles/:id')
GetArticle(articleId) ==
    /\ \E threw \in BOOLEAN :
          LET object == articles_html[Key(articleId)] IN
          response' =
              IF threw
              THEN Answer("GET", articleId, NoHeader, "", 500, "Internal Server Error",
                          FALSE, FALSE, TRUE, Absent)
              ELSE IF object = Absent
              THEN Answer("GET", articleId, NoHeader, "", 404, "Not Found",
                          FALSE, FALSE, FALSE, object)
              ELSE Answer("GET", articleId, NoHeader, "", 200, object,
                          FALSE, FALSE, FALSE, object)
    /\ before' = articles_html
    /\ UNCHANGED <<articles_html, deletes, latestPut>>
    /\ UNCHANGED apiFrame

\* app.put('/articles/:id')
PutArticle(articleId, authHeader, body) ==
    /\ before' = articles_html
    /\ IF NoBearer(authHeader) \/ ~TokenOk(authHeader)
       THEN /\ response' = Unauthorized("PUT", articleId, authHeader, body.kind)
            /\ UNCHANGED <<articles_html, latestPut>>
       ELSE IF body.kind # "html"
       THEN /\ response' = Answer("PUT", articleId, authHeader, body.kind, 400,
                                  "Bad Request", FALSE, TRUE, FALSE, Absent)
            /\ UNCHANGED <<articles_html, latestPut>>
       ELSE \E threw \in BOOLEAN :
               IF threw
               THEN /\ response' = Answer("PUT", articleId, authHeader, body.kind, 500,
                                          "Internal Server Error", FALSE, TRUE, TRUE, Absent)
                    /\ UNCHANGED <<articles_html, latestPut>>
               ELSE /\ articles_html' = Stored(articles_html, Key(articleId), body.content)
                    /\ response' = Answer("PUT", articleId, authHeader, body.kind, 200,
                                          "success", FALSE, TRUE, FALSE, Absent)
                    /\ latestPut' = [latestPut EXCEPT ![articleId] = body.content]
    /\ UNCHANGED deletes
    /\ UNCHANGED apiFrame

\* app.delete('/articles/:id') up to the answer of articles_html.get(key): it
\* answers at once, or goes on to articles_html.delete(key)
DeleteArticle(articleId, authHeader) ==
    /\ IF NoBearer(authHeader) \/ ~TokenOk(authHeader)
       THEN /\ response' = Unauthorized("DELETE", articleId, authHeader, "")
            /\ before' = articles_html
            /\ UNCHANGED deletes
       ELSE \E threw \in BOOLEAN :
               LET object == articles_html[Key(articleId)] IN
               IF threw
               THEN /\ response' = Answer("DELETE", articleId, authHeader, "", 500,
                                          "Internal Server Error", FALSE, FALSE, TRUE, Absent)
                    /\ before' = articles_html
                    /\ UNCHANGED deletes
               ELSE IF object = Absent
               THEN /\ response' = Answer("DELETE", articleId, authHeader, "", 200,
                                          "success", FALSE, FALSE, FALSE, object)
                    /\ before' = articles_html
                    /\ UNCHANGED deletes
               ELSE /\ Pending(deletes, DOMAIN deletes) < MaxDeletes
                    /\ deletes' = [deletes EXCEPT ![<<articleId, object>>] = @ + 1]
                    /\ UNCHANGED <<response, before>>
    /\ UNCHANGED <<articles_html, latestPut>>
    /\ UNCHANGED apiFrame

\* app.delete('/articles/:id'): articles_html.delete(key) answers
DeleteCompletes(articleId, seen) ==
    /\ <<articleId, seen>> \in DOMAIN deletes /\ deletes[<<articleId, seen>>] > 0
    /\ before' = articles_html
    /\ deletes' = [deletes EXCEPT ![<<articleId, seen>>] = @ - 1]
    /\ LET d == [id |-> articleId, seen |-> seen, auth |-> Header("Bearer ", API_SECRET)] IN
       \E threw \in BOOLEAN :
          IF threw
          THEN /\ response' = Answer("DELETE", d.id, d.auth, "", 500,
                                     "Internal Server Error", FALSE, FALSE, TRUE, d.seen)
               /\ UNCHANGED <<articles_html, latestPut>>
          ELSE /\ articles_html' = Removed(articles_html, Key(d.id))
               /\ response' = Answer("DELETE", d.id, d.auth, "", 200, "success",
                                     TRUE, FALSE, FALSE, d.seen)
               /\ latestPut' = [latestPut EXCEPT ![d.id] = Absent]
    /\ UNCHANGED apiFrame

\* The worker starts on an empty bucket; nothing has been answered yet
ApiInit ==
    /\ articles_html = [k \in {Key(a) : a \in ArticleIds} |-> Absent]
    /\ latestPut = [a \in ArticleIds |-> Absent]
    /\ deletes = [d \in ArticleIds \X Contents |-> 0]
    /\ before = articles_html
    /\ response = Answer("", "", NoHeader, "", 0, "", FALSE, FALSE, FALSE, Absent)
    /\ PipelineIdle /\ SemaphoreIdle /\ PLimitIdle /\ SmartFetchIdle /\ MaintenanceIdle
    /\ RunIdle /\ ScrapeIdle

ApiNext ==
    \/ \E a \in ArticleIds : GetArticle(a)
    \/ \E a \in ArticleIds, h \in AuthHeaders, b \in PutBodies : PutArticle(a, h, b)
    \/ \E a \in ArticleIds, h \in AuthHeaders : DeleteArticle(a, h)
    \/ \E a \in ArticleIds, c \in Contents : DeleteCompletes(a, c)

ApiSpec == ApiInit /\ [][ApiNext]_vars

\* The header is missing, is not of the form 'Bearer <token>', or carries a
\* token different from API_SECRET
BadCredentials(h) == ~h.present \/ h.scheme # "Bearer " \/ h.token # API_SECRET

\* C19: a PUT or DELETE whose Authorization header is missing, malformed or
\* carries a wrong token is answered 401 and leaves every stored object
\* unchanged; the check comes before the body is read or validated.
C19_UnauthorizedRejected ==
    (response.method \in {"PUT", "DELETE"} /\ BadCredentials(response.auth)) =>
        /\ response.status = 401
        /\ articles_html = before
        /\ ~response.bodyRead

\* a PUT with a wrong token and a body that is no JSON was answered 401 while
\* the bucket held an object
C19_Witness ==
    /\ response.method = "PUT" /\ response.auth = Header("Bearer ", "wrong-token")
    /\ response.kind = "notJson" /\ response.status = 401
    /\ \E k \in DOMAIN articles_html : articles_html[k] # Absent

\* The bucket holds for every id what the latest successful PUT stored, and
\* nothing once a DELETE removed it
BucketIsMap == \A a \in ArticleIds : articles_html[Key(a)] = latestPut[a]

\* C20 as stated: the API behaves as a map from id to content: GET answers 200
\* with the latest successfully PUT content unless deleted since and 404
\* otherwise; an authorized DELETE always answers success, with deleted=true
\* exactly when the object existed beforehand, and repeating it changes nothing.
C20_BehavesAsMap ==
    /\ BucketIsMap
    /\ response.method = "GET" =>
          /\ articles_html = before
          /\ IF before[<<response.id, ".html">>] = Absent THEN response.status = 404
             ELSE response.status = 200 /\ response.body = before[<<response.id, ".html">>]
    /\ (response.method = "DELETE" /\ ~BadCredentials(response.auth)) =>
          /\ response.status = 200
          /\ response.deleted <=> before[<<response.id, ".html">>] # Absent
          /\ ~response.deleted => articles_html = before

\* C20 as amended: the same while the R2 calls succeed; a handler whose R2 call
\* throws answers 500 and changes nothing, and deleted=true says that the object
\* existed when the handler looked it up (another DELETE may have removed it
\* before this one did).
C20_MapWhileStorageAnswers ==
    /\ BucketIsMap
    /\ response.status = 500 <=> response.threw
    /\ response.threw => articles_html = before
    /\ (response.method = "GET" /\ ~response.threw) =>
          /\ articles_html = before
          /\ IF before[<<response.id, ".html">>] = Absent THEN response.status = 404
             ELSE response.status = 200 /\ response.body = before[<<response.id, ".html">>]
    /\ (response.method = "DELETE" /\ ~BadCredentials(response.auth) /\ ~response.threw) =>
          /\ response.status = 200
          /\ response.deleted <=> response.seen # Absent
          /\ response.deleted => articles_html[<<response.id, ".html">>] = Absent
          /\ ~response.deleted => articles_html = before

\* a DELETE answered deleted=true, the object is gone and the other one is kept
C20_Witness ==
    /\ response.method = "DELETE" /\ response.status = 200 /\ response.deleted
    /\ articles_html[<<response.id, ".html">>] = Absent
    /\ \E k \in DOMAIN articles_html : articles_html[k] # Absent

-----------------------------------------------------------------------------
(* Further statements about processArticleHtml                               *)

\* The article was one element holding nothing but br elements, more of them
\* than the collapse threshold
BrRunArticle ==
    /\ mode = "generic" /\ pc = "done" /\ web = NoWeb /\ selectors = <<>>
    /\ Len(afterPaging.kids[2].kids) = 1
    /\ LET run == afterPaging.kids[2].kids[1].kids IN
       /\ Len(run) > maxConsecutive
       /\ \A k \in DOMAIN run : run[k].tag = "br"

\* The src and href values of a tree
RefsOf(d) == {Attr(n, a) : n \in {m \in NodesOf(d) : HasAttr(m, "src")}, a \in {"src"}}
             \cup {Attr(n, a) : n \in {m \in NodesOf(d) : HasAttr(m, "href")}, a \in {"href"}}

\* processArticleHtml has run on a single page: afterPaging is what
\* absolutizePaths made of the article
Absolutized == mode = "generic" /\ pc = "done" /\ web = NoWeb

ImgurEmbeds(d) ==
    {n \in NodesOf(d) : /\ n.tag = "blockquote" /\ HasClass(n, "imgur-embed-pub")
                         /\ HasAttr(n, "data-id") /\ Attr(n, "data-id") # ""}

\* C24: an imgur embed blockquote with data-id=ID is replaced by an image whose
\* src is exactly https://i.imgur.com/ID.jpg, and the blockquote does not remain
\* in the output.
C24_ImgurBecomesJpg ==
    (Absolutized /\ selectors = <<>>) =>
        \A n \in ImgurEmbeds(afterPaging) :
            /\ \E k \in DOMAIN result :
                  /\ result[k].tag = "img" /\ "src" \in DOMAIN result[k].attrs
                  /\ result[k].attrs["src"] = AbsUrl("i.imgur.com", Attr(n, "data-id"), "jpg")
            /\ \A k \in DOMAIN result : result[k].tag # "blockquote"

\* C21: a run of consecutive br elements longer than the collapse threshold
\* is reduced to a single br in the output.
C21_BrRunCollapsedToOne ==
    BrRunArticle => Cardinality({k \in DOMAIN result : result[k].tag = "br"}) = 1

-----------------------------------------------------------------------------
(* Further statements about baseExtract                                      *)

\* getContent returned what baseExtract made of the article under a rule of
\* the table
Extracted ==
    /\ mode = "extract" /\ variant = "table" /\ outcome = "returned"
    /\ html = doc /\ rule.kind = "sync"

\* C22: when the rule sets toFullURL, every src attribute of the string
\* baseExtract returns is an absolute http(s) URL: what was not absolute has
\* been rewritten against the base.
C22_SrcMadeAbsolute ==
    (Extracted /\ Option(rule.opt, "toFullURL") # "") =>
        \A k \in DOMAIN result :
            "src" \in DOMAIN result[k].attrs => LooksAbsolute(result[k].attrs["src"])


\* The tokens of a serialized output that open a twitter-tweet blockquote
TweetBlocks(out) ==
    {k \in DOMAIN out : /\ out[k].tag = "blockquote" /\ "class" \in DOMAIN out[k].attrs
                         /\ "twitter-tweet" \in out[k].attrs["class"]}

\* The tokens of a serialized output that load widgets.js
Loaders(out) ==
    {k \in DOMAIN out : "src" \in DOMAIN out[k].attrs /\ out[k].attrs["src"] = WidgetsJs}

\* baseExtract has returned under a rule with twitterEmbed
TweetOption == Extracted /\ rule.opt.twitterEmbed

\* What the same call returns with the option switched off
WithoutTweetOption == baseExtract(doc, [rule.opt EXCEPT !.twitterEmbed = FALSE]).out

\* C25: with the Twitter embed option the loader script is appended exactly when
\* the serialized output has a twitter-tweet blockquote and no loader yet; it is
\* appended at most once, and the pass applied to its own result appends nothing.
C25_LoaderAppendedOnce ==
    TweetOption =>
        LET pre == WithoutTweetOption IN
        /\ IF TweetBlocks(pre) # {} /\ Loaders(pre) = {}
           THEN /\ Len(result) = Len(pre) + 1
                /\ SubSeq(result, 1, Len(pre)) = pre
                /\ Loaders(result) = {Len(result)}
                /\ result[Len(result)].tag = "script"
           ELSE result = pre
        /\ twitterEmbed(result) = result

\* the loader was appended behind a tweet
C25_Witness ==
    /\ TweetOption
    /\ TweetBlocks(result) # {}
    /\ Len(result) = Len(WithoutTweetOption) + 1

\* a tweet whose loader the article brought along: nothing is appended
C25_LoaderPresent ==
    /\ TweetOption
    /\ TweetBlocks(result) # {} /\ Loaders(WithoutTweetOption) # {}
    /\ result = WithoutTweetOption
====
